---- MODULE Spec2Model ----
(***************************************************************************)
(* A model of lazy_teacher's stand deployment, template synchronisation    *)
(* and stand teardown (src/modules/*.py) against a Proxmox VE cluster.     *)
(*                                                                         *)
(* The hypervisor is the environment: its REST calls either succeed or     *)
(* fail; a call fails when the hypervisor cannot carry it out (the VM,     *)
(* bridge, pool is missing or already there) or when a fault is injected   *)
(* (at most MaxFaults per behaviour).  Asynchronous calls return a task    *)
(* (UPID) that the hypervisor finishes later (TaskFinish).                 *)
(***************************************************************************)
EXTENDS Integers, Sequences, FiniteSets, TLC

\* ------------------------------------------------------------------ bounds
MaxFaults == 1
MaxVms == 2
MaxRunning == 1
MaxTeardowns == 1
MaxSyncs == 2
MaxBulks == 1
MaxPolls == 3

\* ------------------------------------------------------- program constants
FirstBridge == 1000
BridgeLo == 1000
BridgeHi == 1999
StopPolls == 30

VARIABLES
    cluster,      \* prox.nodes.get(): the node names, in the cluster's order
    vms,          \* hypervisor: vmid -> VM
    bridges,      \* hypervisor: node -> numbers N of the vmbr<N> interfaces
    vlanAware,    \* hypervisor: node -> numbers N whose bridge is VLAN-aware
    pools,        \* hypervisor: pool ids
    pveUsers,     \* hypervisor: user ids
    acl,          \* hypervisor: ACL entries
    tasks,        \* hypervisor: UPID -> task
    groups,       \* config/groups.yaml: group name -> users
    registry,     \* config/templates.yaml: template VMID -> source node, replicas
    stand,        \* the selected *_stand.yaml
    userList,     \* the selected *_list.yaml
    d,            \* frame of deploy_stand_local
    t,            \* frame of delete_user_stand_logic
    s,            \* frame of sync_templates
    dist,         \* frame of deploy_stand_distributed
    wt,           \* frame of wait_for_task
    gop,          \* the last call of a function of groups.py by SpecGroups
    faults,       \* injected hypervisor faults so far
    log           \* the hypervisor calls issued, in order

hyp == <<vms, bridges, vlanAware, pools, pveUsers, acl, tasks>>
vars == <<cluster, vms, bridges, vlanAware, pools, pveUsers, acl, tasks,
          groups, registry, stand, userList, d, t, s, dist, wt, gop, faults, log>>

\* ------------------------------------------------------------ data shapes
NoNode == "none"
NoPool == "none"

\* A NIC binding of a stand: '**vmbr<num>' (static), '<alias>' (vlan = 0) or
\* '<alias>.<vlan>'.
Static(n) == [static |-> TRUE, alias |-> "", num |-> n, vlan |-> 0]
Alias(a) == [static |-> FALSE, alias |-> a, num |-> 0, vlan |-> 0]
AliasVlan(a, v) == [static |-> FALSE, alias |-> a, num |-> 0, vlan |-> v]

\* '<login>@<realm>' of a user list.
User(l, r) == [login |-> l, realm |-> r]
\* f"{user.split('@')[0]}@pve"
PveUser(u) == [login |-> u.login, realm |-> "pve"]
\* user.split('@')[0]
PoolName(u) == u.login

Machine(n, dt, tv, tn, nets, reps) ==
    [name |-> n, device_type |-> dt, template_vmid |-> tv, template_node |-> tn,
     networks |-> nets, replicas |-> reps]

NoReplicas == [n \in {} |-> 0]

\* templates.yaml without a template (the file is missing or empty).
NoRegistry == [v \in {} |-> [source_node |-> NoNode, replicas |-> NoReplicas]]

\* templates.get_replica_vmid: the replica the registry records for the
\* template on the node; 0 for None.
GetReplicaVmid(reg, original_vmid, target_node) ==
    IF original_vmid \in DOMAIN reg /\ target_node \in DOMAIN reg[original_vmid].replicas
    THEN reg[original_vmid].replicas[target_node]
    ELSE 0

\* One entry of the call log: the call, its node, the VMID or bridge number it
\* names, a second argument (the UPID a call returned, 1/0 for a call that
\* succeeded or failed), the tasks that were running when it was issued, and,
\* for a call of a teardown or of a synchronisation, which run of the
\* behaviour issued it, for a call of a deployment, which user of a
\* distributed deployment it was made for (0 outside one); for a call of a
\* deployment about a machine, the user and the machine (indices); for a
\* call of a synchronisation, the template and the node (index); for a clone
\* of a deployment, the VMID that is cloned.
Busy == {[kind |-> tasks[u].kind, vmid |-> tasks[u].vmid] :
            u \in {x \in DOMAIN tasks : tasks[x].state = "running"}}
Ev(op, node, id, arg) ==
    [op |-> op, node |-> node, id |-> id, arg |-> arg, busy |-> Busy,
     run |-> IF op \in {"stop", "del_bridge", "td_reload", "del_vm"} THEN t.runs
             ELSE IF op \in {"sync_clone", "sync_template", "sync_migrate"} THEN s.run
             ELSE dist.ui,
     slot |-> IF op \in {"create_user", "create_pool", "pool_acl", "clone", "nic",
                          "snapshot"} THEN <<d.ui, d.mi>>
              ELSE <<0, 0>>,
     src |-> 0]

\* An ACL entry: path /pool/<pool> or /vms/<vmid>, user, role.
PoolAcl(p, u) == [kind |-> "pool", pool |-> p, vmid |-> 0, user |-> u, role |-> "PVEVMUser"]
VmAcl(id, u) == [kind |-> "vms", pool |-> NoPool, vmid |-> id, user |-> u, role |-> "PVEVMUser"]

\* The outcomes a hypervisor call can have: TRUE always, FALSE while a fault
\* may still be injected.
Outcome == IF faults < MaxFaults THEN {TRUE, FALSE} ELSE {TRUE}
Cost(ok) == IF ok THEN 0 ELSE 1

Min(S) == CHOOSE x \in S : \A y \in S : x <= y

\* ---------------------------------------------------------- the hypervisor
\* /cluster/nextid: the lowest free VMID, from 100.
NextId(v) == Min({n \in 100..(100 + Cardinality(DOMAIN v)) : n \notin DOMAIN v})

VM(node, name, pool) ==
    [node |-> node, name |-> name, pool |-> pool, template |-> FALSE,
     status |-> "stopped", cloning |-> TRUE, nets |-> [k \in {} |-> 0],
     snaps |-> {}]

PutVm(v, id, rec) == [x \in DOMAIN v \cup {id} |-> IF x = id THEN rec ELSE v[x]]
DropVm(v, id) == [x \in DOMAIN v \ {id} |-> v[x]]

Task(kind, node, vmid, arg) ==
    [kind |-> kind, node |-> node, vmid |-> vmid, arg |-> arg, state |-> "running"]

\* C26, mutant: the templates count as members of every pool.
PoolOrTemplates(v, p) == {id \in DOMAIN v : v[id].pool = p \/ v[id].template}

\* prox.pools(pool).get()['members']: the VMs of the pool.
PoolMembers(v, p) == {id \in DOMAIN v : v[id].pool = p}

\* What a task that ends OK does to the VMs.
TaskEffect(v, tk) ==
    IF tk.vmid \notin DOMAIN v THEN v
    ELSE CASE tk.kind = "clone" -> [v EXCEPT ![tk.vmid].cloning = FALSE]
           [] tk.kind = "snapshot" -> [v EXCEPT ![tk.vmid].snaps = @ \cup {"start"}]
           [] tk.kind = "delete" -> DropVm(v, tk.vmid)
           [] tk.kind = "stop" -> [v EXCEPT ![tk.vmid].status = "stopped"]
           [] tk.kind = "template" -> [v EXCEPT ![tk.vmid].template = TRUE]
           [] tk.kind = "migrate" -> [v EXCEPT ![tk.vmid].node = tk.arg]
           [] OTHER -> v

\* What a task that fails leaves behind: a failed clone leaves no VM.
TaskFailure(v, tk) ==
    IF tk.kind = "clone" /\ tk.vmid \in DOMAIN v THEN DropVm(v, tk.vmid) ELSE v

\* The hypervisor ends a running task, OK or not.
TaskFinish ==
    \E u \in DOMAIN tasks : \E ok \in Outcome :
        /\ tasks[u].state = "running"
        /\ LET good == ok /\ tasks[u].vmid \in DOMAIN vms
           IN /\ tasks' = [tasks EXCEPT ![u].state = IF good THEN "OK" ELSE "ERR"]
              /\ vms' = IF good THEN TaskEffect(vms, tasks[u])
                        ELSE TaskFailure(vms, tasks[u])
              /\ acl' = IF good /\ tasks[u].kind = "delete"
                        THEN {e \in acl : ~(e.kind = "vms" /\ e.vmid = tasks[u].vmid)}
                        ELSE acl
        /\ faults' = faults + Cost(ok)
        /\ UNCHANGED <<cluster, registry, dist, wt, gop, bridges, vlanAware, pools, pveUsers, groups,
                       stand, userList, d, t, s, log>>

\* ------------------------------------------------------------ wait_for_task
\* tasks.py wait_for_task with raise_exceptions=True: "ok" when the task is
\* stopped with an exit status that begins with OK, "raise" when it is stopped
\* otherwise; while it runs the waiter keeps polling.
WaitResult(tk) ==
    CASE tk.state = "OK" -> "ok"
      [] tk.state = "ERR" -> "raise"
      [] OTHER -> "poll"

\* ------------------------------------------------ wait_for_task, poll by poll
\* The exit statuses a stopped task is seen with, as sequences of characters;
\* NoExit stands for a status without 'exitstatus'.
NoExit == <<"-">>
ExitStatuses ==
    {<<"O", "K">>, <<"O", "K", ":", "w">>, <<"O">>, <<"N", "O", "K">>, <<"o", "k">>,
     <<"E", "R", "R">>, <<>>, NoExit}

\* What a status query of the waiter can give: an error, a task that runs, a
\* task that is stopped.
Responses ==
    {[status |-> "error", exit |-> NoExit], [status |-> "running", exit |-> NoExit]}
    \cup {[status |-> "stopped", exit |-> e] : e \in ExitStatuses}

\* C18, mutant: 'OK' is looked for anywhere in the exit status.
ContainsOK(e) == \E i \in 1..(Len(e) - 1) : e[i] = "O" /\ e[i + 1] = "K"

\* exit_status.startswith('OK'), line 52.
StartsWithOK(e) == Len(e) >= 2 /\ e[1] = "O" /\ e[2] = "K"

\* status.get('exitstatus', ''), line 51.
ExitStatus(r) == IF r.exit = NoExit THEN <<>> ELSE r.exit

\* Lines 47-74, one status query: "true" for a stopped task whose exit status
\* begins with OK, "fail" for another stopped task or an error of the query,
\* "sleep" for a task that is not stopped.
PollOutcome(r) ==
    IF r.status = "error" THEN "fail"
    ELSE IF r.status = "stopped"
    THEN IF StartsWithOK(ExitStatus(r)) THEN "true" ELSE "fail"
    ELSE "sleep"

\* How wait_for_task reports a failure: lines 65-67, 72-74, 84-86.
Failure(raise_exceptions) == IF raise_exceptions THEN "raised" ELSE "false"

\* The callers of wait_for_task: itself with either raise_exceptions, and
\* the wrappers of lines 89-112, which always raise.
Waiters ==
    {[kind |-> "generic", raise_exceptions |-> b] : b \in BOOLEAN}
    \cup {[kind |-> k, raise_exceptions |-> TRUE] :
            k \in {"clone", "migration", "snapshot", "template"}}

WIdle == [pc |-> "idle", kind |-> "generic", raise_exceptions |-> TRUE, elapsed |-> 0,
          seen |-> <<>>]

\* wait_for_task is called (lines 13-44).
WaitCall ==
    /\ wt.pc = "idle"
    /\ \E c \in Waiters :
        wt' = [WIdle EXCEPT !.pc = "poll", !.kind = c.kind,
                            !.raise_exceptions = c.raise_exceptions]
    /\ UNCHANGED <<cluster, registry, dist, gop, hyp, groups, stand, userList, d, t, s, faults, log>>

\* Lines 46-76: while the timeout has not passed the status of the task is
\* queried; a task that is not stopped is queried again after the interval.
WaitPoll ==
    /\ wt.pc = "poll"
    /\ wt.elapsed < MaxPolls
    /\ \E r \in Responses :
        LET o == PollOutcome(r)
        IN wt' = [wt EXCEPT !.seen = Append(@, r),
                            !.elapsed = IF o = "sleep" THEN @ + 1 ELSE @,
                            !.pc = IF o = "sleep" THEN "poll"
                                   ELSE IF o = "true" THEN "true"
                                   ELSE Failure(wt.raise_exceptions)]
    /\ log' = Append(log, [Ev("task_status", NoNode, 0, 0) EXCEPT !.busy = {}])
    /\ UNCHANGED <<cluster, registry, dist, gop, hyp, groups, stand, userList, d, t, s, faults>>

\* Lines 78-86: the timeout has passed.
WaitTimeout ==
    /\ wt.pc = "poll"
    /\ wt.elapsed >= MaxPolls
    /\ wt' = [wt EXCEPT !.pc = Failure(wt.raise_exceptions)]
    /\ UNCHANGED <<cluster, registry, dist, gop, hyp, groups, stand, userList, d, t, s, faults, log>>

\* ------------------------------------------------------- the bridge planner
\* deploy_stand_local.get_next_bridge_number: the lowest N >= 1000 with no
\* vmbr<N> on the node; 1000 when the network list cannot be read.
GetNextBridgeNumber(existing, ok) ==
    IF ok
    THEN Min({n \in FirstBridge..(FirstBridge + Cardinality(existing)) : n \notin existing})
    ELSE FirstBridge

RECURSIVE FlattenNics(_)
FlattenNics(ms) ==
    IF ms = <<>> THEN <<>> ELSE Head(ms).networks \o FlattenNics(Tail(ms))

HasAlias(cfg, a) == \E i \in DOMAIN cfg : cfg[i].alias = a
PlanEntry(cfg, a) == cfg[CHOOSE i \in DOMAIN cfg : cfg[i].alias = a]

\* C17, mutant: a VLAN seen on an alias already planned does not make its
\* bridge VLAN-aware.
PlanNicFirstSighting(st, nic) ==
    IF nic.static THEN st
    ELSE IF ~HasAlias(st.cfg, nic.alias)
    THEN [cfg |-> Append(st.cfg, [alias |-> nic.alias, vlan_aware |-> nic.vlan # 0,
                                  vmbr |-> st.bn,
                                  vlans |-> IF nic.vlan # 0 THEN {nic.vlan} ELSE {}]),
          bn |-> st.bn + 1]
    ELSE st

\* create_bridges, one NIC binding: st = [cfg, bn] is bridge_configs (in
\* insertion order) and bridge_number.
PlanNic(st, nic) ==
    IF nic.static THEN st
    ELSE IF nic.vlan # 0
    THEN IF ~HasAlias(st.cfg, nic.alias)
         THEN [cfg |-> Append(st.cfg, [alias |-> nic.alias, vlan_aware |-> TRUE,
                                       vmbr |-> st.bn, vlans |-> {nic.vlan}]),
               bn |-> st.bn + 1]
         ELSE [cfg |-> [i \in DOMAIN st.cfg |->
                          IF st.cfg[i].alias = nic.alias
                          THEN [st.cfg[i] EXCEPT !.vlan_aware = TRUE,
                                                 !.vlans = @ \cup {nic.vlan}]
                          ELSE st.cfg[i]],
               bn |-> st.bn]
    ELSE IF ~HasAlias(st.cfg, nic.alias)
         THEN [cfg |-> Append(st.cfg, [alias |-> nic.alias, vlan_aware |-> FALSE,
                                       vmbr |-> st.bn, vlans |-> {}]),
               bn |-> st.bn + 1]
         ELSE st

RECURSIVE PlanNics(_, _)
PlanNics(st, nics) ==
    IF nics = <<>> THEN st ELSE PlanNics(PlanNic(st, Head(nics)), Tail(nics))

\* create_bridges, the planning loop over the stand's machines and NICs.
BridgeConfigs(st, bn) ==
    PlanNics([cfg |-> <<>>, bn |-> bn], FlattenNics(st.machines)).cfg

\* C16, mutant: the VLAN of a binding is not written.
NetConfigUntagged(nic, cfg, device_type, i) ==
    LET br == IF nic.static THEN nic.num ELSE PlanEntry(cfg, nic.alias).vmbr
    IN IF device_type = "ecorouter"
       THEN [model |-> "vmxnet3", bridge |-> br, tag |-> nic.vlan,
             link_down |-> IF i = 0 THEN 1 ELSE 0, mac |-> TRUE]
       ELSE [model |-> "virtio", bridge |-> br, tag |-> 0, link_down |-> 0, mac |-> FALSE]

\* configure_vm_network: the value written to net<i> for the i-th entry of
\* the machine's networks (i from 0); mac tells whether a generated macaddr
\* is appended.
NetConfig(nic, cfg, device_type, i) ==
    LET br == IF nic.static THEN nic.num ELSE PlanEntry(cfg, nic.alias).vmbr
    IN IF device_type = "ecorouter"
       THEN [model |-> "vmxnet3", bridge |-> br, tag |-> nic.vlan,
             link_down |-> IF i = 0 THEN 1 ELSE 0, mac |-> TRUE]
       ELSE [model |-> "virtio", bridge |-> br,
             tag |-> IF nic.static THEN 0 ELSE nic.vlan,
             link_down |-> 0, mac |-> FALSE]

\* The net<i> key the i-th declared NIC is written to.
NetKey(device_type, i) == i

\* ------------------------------------------------------ deploy_stand_local
DIdle ==
    [pc |-> "idle", users |-> <<>>, target |-> NoNode, node |-> NoNode,
     ui |-> 0, mi |-> 0, ni |-> 0, bi |-> 0, plan |-> <<>>, vmid |-> 0,
     upid |-> 0, results |-> <<>>]

\* deploy_stand_local lines 296-304: the node the stands are deployed on.
DeployNode(st, nodes, target) ==
    LET n0 == IF target # NoNode THEN target
              ELSE IF st.machines # <<>> THEN st.machines[1].template_node
              ELSE nodes[1]
    IN IF \E i \in DOMAIN nodes : nodes[i] = n0 THEN n0 ELSE nodes[1]

\* The frame deploy_stand_local starts its user loop with; an empty user list
\* returns at once (line 281).
DeployStart(users, target) ==
    IF users = <<>> THEN [DIdle EXCEPT !.pc = "done"]
    ELSE [DIdle EXCEPT !.pc = "bridges_plan", !.users = users, !.target = target,
                       !.node = DeployNode(stand, cluster, target), !.ui = 1]

DUser == d.users[d.ui]
DMachine == stand.machines[d.mi]

\* C10, mutant: the network is reloaded after the first user.
NextUserReloadEarly(f) ==
    [f EXCEPT !.ui = @ + 1, !.mi = 0, !.ni = 0, !.bi = 0, !.pc = "reload"]

\* 'continue' of the user loop, and its end (the reload of line 376).
NextUser(f) ==
    [f EXCEPT !.ui = @ + 1, !.mi = 0, !.ni = 0, !.bi = 0,
              !.pc = IF f.ui + 1 > Len(f.users) THEN "reload" ELSE "bridges_plan"]

\* 'continue' of the machine loop, and its end (the append of line 368).
NextMachine(f) ==
    [f EXCEPT !.mi = @ + 1, !.ni = 0,
              !.pc = IF f.mi + 1 > Len(stand.machines) THEN "result" ELSE "nextid"]

\* C2, mutant: the clone is never waited for.
AfterCloneNoWait(f) == "nic"

\* After the clone: the wait of line 352 only with a target_node.
AfterClone(f) == IF f.target # NoNode THEN "wait_clone" ELSE "nic"

\* The machine loop's step after the NICs of the machine are written.
AfterNics(f) ==
    IF f.ni + 1 >= Len(stand.machines[f.mi].networks) THEN "vm_acl" ELSE "nic"

\* The template a machine is cloned from on the node (line 341).
CloneSource(m, target, node) ==
    LET key == IF target # NoNode THEN target ELSE node
    IN IF key \in DOMAIN m.replicas THEN m.replicas[key] ELSE m.template_vmid

\* create_bridges, lines 73-110: read the node's interfaces and plan.
DeployPlan ==
    /\ d.pc = "bridges_plan"
    /\ \E ok \in Outcome :
        LET bn == GetNextBridgeNumber(bridges[d.node], ok)
            cfg == BridgeConfigs(stand, bn)
        IN /\ d' = [d EXCEPT !.plan = cfg, !.bi = 1,
                             !.pc = IF cfg = <<>> THEN "create_user" ELSE "bridge_post"]
           /\ faults' = faults + Cost(ok)
    /\ UNCHANGED <<cluster, registry, dist, wt, gop, hyp, groups, stand, userList, t, s, log>>

\* create_bridges, lines 112-132: create one planned bridge, then set it
\* VLAN-aware; an error of either call is logged and the loop goes on.
DeployBridge ==
    /\ d.pc = "bridge_post"
    /\ \E ok \in Outcome : \E ok2 \in (IF d.plan[d.bi].vlan_aware THEN {TRUE, ok} ELSE {ok}) :
        LET e == d.plan[d.bi]
            posted == ok2 /\ e.vmbr \notin bridges[d.node]
            aware == posted /\ e.vlan_aware /\ ok
        IN /\ bridges' = IF posted THEN [bridges EXCEPT ![d.node] = @ \cup {e.vmbr}]
                         ELSE bridges
           /\ vlanAware' = IF aware THEN [vlanAware EXCEPT ![d.node] = @ \cup {e.vmbr}]
                           ELSE vlanAware
           /\ log' = Append(log, Ev("bridge_post", d.node, e.vmbr, IF posted THEN 1 ELSE 0))
           /\ faults' = faults + Cost(ok)
    /\ d' = [d EXCEPT !.bi = @ + 1,
                      !.pc = IF d.bi = Len(d.plan) THEN "create_user" ELSE "bridge_post"]
    /\ UNCHANGED <<cluster, registry, dist, wt, gop, vms, pools, pveUsers, acl, tasks, groups, stand,
                   userList, t, s>>

\* C20, mutant: a user that cannot be prepared ends the loop.
SkipUserBreak(f) == [f EXCEPT !.pc = "reload"]

\* The 'continue' of lines 320, 325 and 330: the user is given up and the
\* loop goes on.
SkipUser(f) == NextUser(f)

\* create_user (lines 135-149): "already exists" counts as created.
DeployCreateUser ==
    /\ d.pc = "create_user"
    /\ \E ok \in Outcome :
        /\ pveUsers' = IF ok THEN pveUsers \cup {PveUser(DUser)} ELSE pveUsers
        /\ log' = Append(log, Ev("create_user", d.node, 0, IF ok THEN 1 ELSE 0))
        /\ d' = IF ok THEN [d EXCEPT !.pc = "create_pool"] ELSE SkipUser(d)
        /\ faults' = faults + Cost(ok)
    /\ UNCHANGED <<cluster, registry, dist, wt, gop, vms, bridges, vlanAware, pools, acl, tasks, groups,
                   stand, userList, t, s>>

\* create_pool (lines 151-162).
DeployCreatePool ==
    /\ d.pc = "create_pool"
    /\ \E ok \in Outcome :
        /\ pools' = IF ok THEN pools \cup {PoolName(DUser)} ELSE pools
        /\ log' = Append(log, Ev("create_pool", d.node, 0, IF ok THEN 1 ELSE 0))
        /\ d' = IF ok THEN [d EXCEPT !.pc = "pool_acl"] ELSE SkipUser(d)
        /\ faults' = faults + Cost(ok)
    /\ UNCHANGED <<cluster, registry, dist, wt, gop, vms, bridges, vlanAware, pveUsers, acl, tasks, groups,
                   stand, userList, t, s>>

\* assign_pool_permissions (lines 164-175).
DeployPoolAcl ==
    /\ d.pc = "pool_acl"
    /\ \E ok \in Outcome :
        /\ acl' = IF ok THEN acl \cup {PoolAcl(PoolName(DUser), PveUser(DUser))} ELSE acl
        /\ log' = Append(log, Ev("pool_acl", d.node, 0, IF ok THEN 1 ELSE 0))
        /\ d' = IF ok THEN NextMachine(d) ELSE SkipUser(d)
        /\ faults' = faults + Cost(ok)
    /\ UNCHANGED <<cluster, registry, dist, wt, gop, vms, bridges, vlanAware, pools, pveUsers, tasks, groups,
                   stand, userList, t, s>>

\* get_next_vmid (lines 22-29, 335-337).
DeployNextId ==
    /\ d.pc = "nextid"
    /\ \E ok \in Outcome :
        /\ d' = IF ok THEN [d EXCEPT !.vmid = NextId(vms), !.pc = "clone"]
                ELSE NextMachine(d)
        /\ faults' = faults + Cost(ok)
    /\ UNCHANGED <<cluster, registry, dist, wt, gop, hyp, groups, stand, userList, t, s, log>>

\* clone_vm (lines 177-189, 340-348): the clone is refused when the source
\* VM is not on the node.
DeployClone ==
    /\ d.pc = "clone"
    /\ \E ok \in Outcome :
        LET src == CloneSource(DMachine, d.target, d.node)
            good == /\ ok
                    /\ src \in DOMAIN vms
                    /\ vms[src].node = d.node
                    /\ PoolName(DUser) \in pools
            upid == Len(tasks) + 1
        IN /\ vms' = IF good
                     THEN PutVm(vms, d.vmid, VM(d.node, DMachine.name, PoolName(DUser)))
                     ELSE vms
           /\ tasks' = IF good THEN Append(tasks, Task("clone", d.node, d.vmid, NoNode))
                       ELSE tasks
           /\ log' = Append(log, [Ev("clone", d.node, d.vmid, IF good THEN upid ELSE 0)
                                  EXCEPT !.src = src])
           /\ d' = IF good THEN [d EXCEPT !.upid = upid, !.pc = AfterClone(d)]
                   ELSE NextMachine(d)
           /\ faults' = faults + Cost(ok)
    /\ UNCHANGED <<cluster, registry, dist, wt, gop, bridges, vlanAware, pools, pveUsers, acl, groups, stand,
                   userList, t, s>>

\* wait_for_clone_task (line 352) and wait_for_task (line 364): an exception
\* of the waiter (task failed, status unreadable, timeout) leaves
\* deploy_stand_local.
DeployWait ==
    /\ d.pc \in {"wait_clone", "wait_snap"}
    /\ \E ok \in Outcome :
        LET r == IF ok THEN WaitResult(tasks[d.upid]) ELSE "raise"
        IN /\ r # "poll"
           /\ d' = IF r = "raise" THEN [d EXCEPT !.pc = "raised"]
                   ELSE IF d.pc = "wait_snap" THEN NextMachine(d)
                   ELSE IF DMachine.networks = <<>> THEN [d EXCEPT !.pc = "vm_acl"]
                   ELSE [d EXCEPT !.pc = "nic"]
           /\ faults' = faults + Cost(ok)
    /\ UNCHANGED <<cluster, registry, dist, wt, gop, hyp, groups, stand, userList, t, s, log>>

\* configure_vm_network (lines 191-250): one config.put per NIC, an error is
\* logged and the loop goes on.
DeployNic ==
    /\ d.pc = "nic"
    /\ IF DMachine.networks = <<>>
       THEN /\ d' = [d EXCEPT !.pc = "vm_acl"]
            /\ UNCHANGED <<vms, log, faults>>
       ELSE \E ok \in Outcome :
            LET i == d.ni
                key == NetKey(DMachine.device_type, i)
                val == NetConfig(DMachine.networks[i + 1], d.plan, DMachine.device_type, i)
                good == ok /\ d.vmid \in DOMAIN vms
            IN /\ vms' = IF good
                         THEN [vms EXCEPT ![d.vmid].nets =
                                 [k \in DOMAIN @ \cup {key} |-> IF k = key THEN val ELSE @[k]]]
                         ELSE vms
               /\ log' = Append(log, Ev("nic", d.node, d.vmid, key))
               /\ d' = [d EXCEPT !.ni = @ + 1, !.pc = AfterNics(d)]
               /\ faults' = faults + Cost(ok)
    /\ UNCHANGED <<cluster, registry, dist, wt, gop, bridges, vlanAware, pools, pveUsers, acl, tasks, groups,
                   stand, userList, t, s>>

\* assign_vm_permissions (lines 252-263).
DeployVmAcl ==
    /\ d.pc = "vm_acl"
    /\ \E ok \in Outcome :
        /\ acl' = IF ok THEN acl \cup {VmAcl(d.vmid, PveUser(DUser))} ELSE acl
        /\ faults' = faults + Cost(ok)
    /\ d' = [d EXCEPT !.pc = "snapshot"]
    /\ UNCHANGED <<cluster, registry, dist, wt, gop, vms, bridges, vlanAware, pools, pveUsers, tasks, groups,
                   stand, userList, t, s, log>>

\* create_vm_snapshot (lines 265-274, 362-364).
DeploySnapshot ==
    /\ d.pc = "snapshot"
    /\ \E ok \in Outcome :
        LET good == ok /\ d.vmid \in DOMAIN vms
            upid == Len(tasks) + 1
        IN /\ tasks' = IF good THEN Append(tasks, Task("snapshot", d.node, d.vmid, NoNode))
                       ELSE tasks
           /\ log' = Append(log, Ev("snapshot", d.node, d.vmid, IF good THEN upid ELSE 0))
           /\ d' = IF good THEN [d EXCEPT !.upid = upid, !.pc = "wait_snap"]
                   ELSE NextMachine(d)
           /\ faults' = faults + Cost(ok)
    /\ UNCHANGED <<cluster, registry, dist, wt, gop, vms, bridges, vlanAware, pools, pveUsers, acl, groups,
                   stand, userList, t, s>>

\* deployment_results.append (lines 366-373).
DeployResult ==
    /\ d.pc = "result"
    /\ d' = NextUser([d EXCEPT !.results =
                Append(@, [user |-> PoolName(DUser), node |-> d.node])])
    /\ UNCHANGED <<cluster, registry, dist, wt, gop, hyp, groups, stand, userList, t, s, faults, log>>

\* reload_network (line 376; network.py lines 16-71): the error of the call
\* is reported, not raised.
DeployReload ==
    /\ d.pc = "reload"
    /\ \E ok \in Outcome :
        /\ log' = Append(log, Ev("reload", d.node, 0, IF ok THEN 1 ELSE 0))
        /\ faults' = faults + Cost(ok)
    /\ d' = [d EXCEPT !.pc = "done"]
    /\ UNCHANGED <<cluster, registry, dist, wt, gop, hyp, groups, stand, userList, t, s>>

\* ------------------------------------------------------- create_stands_menu
TIdle ==
    [pc |-> "idle", user |-> User("", "pve"), pool |-> NoPool, auto |-> FALSE,
     members |-> <<>>, nodes |-> {}, todo |-> {}, running |-> <<>>, i |-> 0,
     polls |-> 0, upid |-> 0, stopped |-> TRUE, deleted |-> 0,
     pool_deleted |-> FALSE, user_deleted |-> FALSE, ret |-> "none", runs |-> 0,
     bulk |-> 0, bulks |-> 0, count |-> 0, failed |-> <<>>, confirm |-> "",
     menu |-> "", group |-> <<>>, musers |-> <<>>, mi |-> 0, rets |-> <<>>]

SIdle ==
    [pc |-> "idle", run |-> 0, gi |-> 0, ni |-> 0, clone_vmid |-> 0, upid |-> 0,
     updated |-> FALSE, failed |-> {}, stale |-> {}, f0 |-> 0, prev_ok |-> FALSE,
     ret |-> FALSE]

XIdle == [pc |-> "idle", ui |-> 0, syncs |-> 0, results |-> <<>>]

\* groups.generate_group_name: '<stand>-<list>' of the two file names.
GenerateGroupName(stand_file, user_list_file) == <<stand_file, user_list_file>>

\* groups.create_group: the group is written with the whole user list.
CreateGroup(gs, name, users) ==
    [g \in DOMAIN gs \cup {name} |-> IF g = name THEN users ELSE gs[g]]

\* groups.find_user_group: the first group that lists the user.
FindUserGroup(gs, u) ==
    IF \E g \in DOMAIN gs : \E i \in DOMAIN gs[g] : gs[g][i] = u
    THEN {CHOOSE g \in DOMAIN gs : \E i \in DOMAIN gs[g] : gs[g][i] = u}
    ELSE {}

RECURSIVE RemoveFirst(_, _)
RemoveFirst(q, x) ==
    IF q = <<>> THEN <<>>
    ELSE IF Head(q) = x THEN Tail(q) ELSE <<Head(q)>> \o RemoveFirst(Tail(q), x)

\* The record of a call of a function of groups.py: the function, its
\* arguments, the users of the group before the call, and whether the index
\* was stored.
NoCall == [op |-> "none", group |-> <<"", "">>, user |-> User("", "pve"), before |-> <<>>,
           saved |-> FALSE]
GroupCall(op, name, u, saved) ==
    [op |-> op, group |-> name, user |-> u,
     before |-> IF name \in DOMAIN groups THEN groups[name] ELSE <<>>, saved |-> saved]

\* groups.delete_group.
DeleteGroup(gs, name) == [g \in DOMAIN gs \ {name} |-> gs[g]]

\* groups.add_user_to_group: a user the group of that name does not list is
\* appended.
AddUserToGroup(gs, name, u) ==
    IF name \notin DOMAIN gs THEN gs
    ELSE IF \E i \in DOMAIN gs[name] : gs[name][i] = u THEN gs
    ELSE [gs EXCEPT ![name] = Append(@, u)]

\* C19, mutant: a group is kept when its last user is removed.
RemoveUserKeepGroup(gs, name, u) ==
    IF name \notin DOMAIN gs THEN gs ELSE [gs EXCEPT ![name] = RemoveFirst(gs[name], u)]

\* groups.remove_user_from_group: the group is deleted with its last user.
RemoveUserFromGroup(gs, name, u) ==
    IF name \notin DOMAIN gs THEN gs
    ELSE LET rest == RemoveFirst(gs[name], u)
         IN IF rest = <<>> THEN [g \in DOMAIN gs \ {name} |-> gs[g]]
            ELSE [gs EXCEPT ![name] = rest]

\* Choice 1 of create_stands_menu (line 396).
Distributed == "distributed"

\* create_stands_menu, steps 5-6: with one node the stand is deployed
\* locally; with more nodes the operator picks a node (choice 2) or the
\* distributed deployment (choice 1), whose call with keyword arguments
\* raises, deploy_stand_distributed taking none.  The group is written
\* before the deployment is started.
CreateStandsMenu ==
    /\ d.pc = "idle"
    /\ t.pc = "idle"
    /\ s.pc = "idle"
    /\ dist.pc = "idle"
    /\ \E target \in (IF Len(cluster) <= 1 THEN {NoNode}
                      ELSE {cluster[i] : i \in DOMAIN cluster} \cup {Distributed}) :
        d' = IF target = Distributed THEN [DIdle EXCEPT !.pc = "raised"]
             ELSE DeployStart(userList.users, target)
    /\ groups' = CreateGroup(groups, GenerateGroupName(stand.file, userList.file),
                             userList.users)
    /\ UNCHANGED <<cluster, registry, dist, wt, gop, hyp, stand, userList, t, s, faults, log>>

\* A student starts a VM of a stand (the hypervisor's console), while no
\* operation of the program is under way, or while a teardown that stopped
\* the VM has not yet looked at its status.
StartVm ==
    /\ d.pc \in {"done", "raised"}
    /\ t.pc \in {"idle", "poll_stop"}
    /\ \E id \in DOMAIN vms :
        /\ t.pc = "poll_stop" => (t.polls = 0 /\ id = t.running[t.i])
        /\ vms[id].pool # NoPool
        /\ vms[id].status = "stopped"
        /\ Cardinality({x \in DOMAIN vms : vms[x].status = "running"}) < MaxRunning
        /\ ~vms[id].cloning
        /\ vms' = [vms EXCEPT ![id].status = "running"]
    /\ UNCHANGED <<cluster, registry, dist, wt, gop, bridges, vlanAware, pools, pveUsers, acl, tasks, groups,
                   stand, userList, d, t, s, faults, log>>

\* --------------------------------------------------- delete_user_stand_logic
RECURSIVE SortedSeq(_)
SortedSeq(S) == IF S = {} THEN <<>> ELSE <<Min(S)>> \o SortedSeq(S \ {Min(S)})

\* The return of delete_user_stand_logic, to the menu or to the loop of
\* delete_all_user_stands.
TReturn(f, r) ==
    [f EXCEPT !.pc = IF f.bulk > 0 THEN "bulk_next"
                     ELSE IF f.menu # "" THEN "menu_next" ELSE "idle",
              !.ret = r]

\* The bridges the NICs of a VM are attached to.
VmBridges(v, id) == {v[id].nets[k].bridge : k \in DOMAIN v[id].nets}

\* C14, mutant: every bridge of a member's NIC is collected.
CollectAllBridges(v, members) ==
    UNION {{<<b, v[id].node>> : b \in VmBridges(v, id)} :
             id \in {m \in members : m \in DOMAIN v}}

\* _collect_bridges_to_delete: the (bridge, node) pairs of the members' NICs
\* whose number lies in 1000..1999; a member whose config cannot be read is
\* skipped.
CollectBridgesToDelete(v, members) ==
    UNION {{<<b, v[id].node>> : b \in {x \in VmBridges(v, id) : BridgeLo <= x /\ x <= BridgeHi}} :
             id \in {m \in members : m \in DOMAIN v}}

\* The member VMs that still exist and have a NIC on the bridge of the node.
Referencing(v, members, pair) ==
    {id \in members : /\ id \in DOMAIN v
                      /\ v[id].node = pair[2]
                      /\ pair[1] \in VmBridges(v, id)}

\* The frame delete_user_stand_logic(user, auto_stop) starts with (lines
\* 386-407).
TeardownEnter(f, user, auto) ==
    [TIdle EXCEPT !.pc = "validate", !.user = user, !.pool = PoolName(user),
                  !.auto = auto, !.runs = f.runs + 1, !.bulk = f.bulk,
                  !.bulks = f.bulks, !.count = f.count, !.failed = f.failed]

\* delete_user_stand_logic(user, auto_stop), called for a user of the list.
TeardownStart ==
    /\ d.pc \in {"idle", "done", "raised"}
    /\ t.pc = "idle"
    /\ s.pc = "idle"
    /\ t.runs < MaxTeardowns
    /\ \E i \in DOMAIN userList.users : \E auto \in BOOLEAN :
        t' = TeardownEnter(t, PveUser(userList.users[i]), auto)
    /\ UNCHANGED <<cluster, registry, dist, wt, gop, hyp, groups, stand, userList, d, s, faults, log>>

\* C13, mutant: the user and the pool are not looked for.
ValidateSkipped(ok, user, pool) == ok

\* _validate_user_exists and _validate_pool_exists (lines 108-125): a list
\* that cannot be read counts as not found.
ValidateExists(ok, user, pool) == ok /\ user \in pveUsers /\ pool \in pools

\* Steps 1-3 (lines 410-443): the user, the pool and the pool's members are
\* read; a missing user or pool, or a failed read, returns False.
TeardownValidate ==
    /\ t.pc = "validate"
    /\ \E ok \in Outcome :
        LET ms == PoolMembers(vms, t.pool)
            found == ValidateExists(ok, t.user, t.pool)
        IN /\ t' = IF ~found THEN TReturn(t, "false")
                   ELSE IF ms = {} THEN [t EXCEPT !.pc = "empty_pool"]
                   ELSE [t EXCEPT !.members = SortedSeq(ms),
                                  !.nodes = {vms[id].node : id \in ms},
                                  !.pc = "collect"]
           /\ faults' = faults + Cost(ok)
    /\ UNCHANGED <<cluster, registry, dist, wt, gop, hyp, groups, stand, userList, d, s, log>>

\* Step 4 (line 447) and the status reads of step 5 (line 455): a member
\* whose config cannot be read gives no bridge, a member whose status cannot
\* be read counts as not running.
TeardownCollect ==
    /\ t.pc = "collect"
    /\ \E ok \in Outcome : \E skip \in {t.members[i] : i \in DOMAIN t.members} :
       \E read \in {"config", "status"} :
        LET ms == {t.members[i] : i \in DOMAIN t.members}
            seen == IF ok THEN ms ELSE ms \ {skip}
            run == {id \in (IF read = "status" THEN seen ELSE ms) :
                        id \in DOMAIN vms /\ vms[id].status = "running"}
        IN /\ t' = [t EXCEPT !.todo = CollectBridgesToDelete(vms, IF read = "config" THEN seen
                                                                 ELSE ms),
                             !.running = SortedSeq(run), !.i = 1,
                             !.pc = IF run = {} THEN "del_bridges" ELSE "confirm"]
           /\ faults' = faults + Cost(ok)
    /\ UNCHANGED <<cluster, registry, dist, wt, gop, hyp, groups, stand, userList, d, s, log>>

\* C28, mutant: the VMs are stopped whatever the operator answers.
AfterConfirmStop(f, confirm) == [f EXCEPT !.pc = "stop", !.confirm = confirm]

\* _stop_vms, lines 174-178, and line 460: another answer than 'y' ends the
\* teardown with False.
AfterConfirm(f, confirm) ==
    IF confirm = "y" THEN [f EXCEPT !.pc = "stop", !.confirm = confirm]
    ELSE TReturn([f EXCEPT !.confirm = confirm], "false")

\* _stop_vms, lines 174-178: without auto_stop the operator is asked.
TeardownConfirm ==
    /\ t.pc = "confirm"
    /\ IF t.auto THEN t' = [t EXCEPT !.pc = "stop"]
       ELSE \E confirm \in {"y", "n"} : t' = AfterConfirm(t, confirm)
    /\ UNCHANGED <<cluster, registry, dist, wt, gop, hyp, groups, stand, userList, d, s, faults, log>>

\* C3, mutant: the VMs are deleted right after the stop, before the bridges.
AfterStopDeleteVms(f) ==
    IF f.i < Len(f.running) THEN [f EXCEPT !.i = @ + 1, !.pc = "stop"]
    ELSE IF f.stopped THEN [f EXCEPT !.i = 1, !.pc = "del_vm"]
    ELSE TReturn(f, "false")

\* The end of the loop of _stop_vms: all stopped, or the teardown is given up.
AfterStop(f) ==
    IF f.i < Len(f.running) THEN [f EXCEPT !.i = @ + 1, !.pc = "stop"]
    ELSE IF f.stopped THEN [f EXCEPT !.i = 1, !.pc = "del_bridges"]
    ELSE TReturn(f, "false")

\* _stop_vms, line 189: the stop request of one running VM.
TeardownStop ==
    /\ t.pc = "stop"
    /\ \E ok \in Outcome :
        LET id == t.running[t.i]
            good == ok /\ id \in DOMAIN vms
            upid == Len(tasks) + 1
        IN /\ tasks' = IF good THEN Append(tasks, Task("stop", vms[id].node, id, NoNode))
                       ELSE tasks
           /\ log' = Append(log, Ev("stop", NoNode, id, IF good THEN upid ELSE 0))
           /\ t' = IF good THEN [t EXCEPT !.upid = upid, !.pc = "wait_stop"]
                   ELSE AfterStop([t EXCEPT !.stopped = FALSE])
           /\ faults' = faults + Cost(ok)
    /\ UNCHANGED <<cluster, registry, dist, wt, gop, vms, bridges, vlanAware, pools, pveUsers, acl, groups,
                   stand, userList, d, s>>

\* The end of the loop of _delete_vms_from_pool.
AfterDelete(f) ==
    IF f.i < Len(f.members) THEN [f EXCEPT !.i = @ + 1, !.pc = "del_vm"]
    ELSE [f EXCEPT !.pc = "del_pool"]

\* wait_task_func of lines 193 and 300: the exception of a failed task is
\* caught by the caller; after a stop task that ended OK the status of the VM
\* is polled.
TeardownWait ==
    /\ t.pc \in {"wait_stop", "wait_del"}
    /\ \E ok \in Outcome :
        LET r == IF ok THEN WaitResult(tasks[t.upid]) ELSE "raise"
        IN /\ r # "poll"
           /\ t' = IF t.pc = "wait_stop"
                   THEN IF r = "ok" THEN [t EXCEPT !.pc = "poll_stop", !.polls = 0]
                        ELSE AfterStop([t EXCEPT !.stopped = FALSE])
                   ELSE AfterDelete([t EXCEPT !.deleted = @ + (IF r = "ok" THEN 1 ELSE 0)])
           /\ faults' = faults + Cost(ok)
    /\ UNCHANGED <<cluster, registry, dist, wt, gop, hyp, groups, stand, userList, d, s, log>>

\* _stop_vms, lines 195-203: the status of the VM is read up to 30 times, a
\* second apart, until it is 'stopped'; an error of the read is caught at
\* line 208.
TeardownPollStop ==
    /\ t.pc = "poll_stop"
    /\ \E ok \in Outcome :
        LET id == t.running[t.i]
            err == ~ok \/ id \notin DOMAIN vms
        IN /\ t' = IF err THEN AfterStop([t EXCEPT !.stopped = FALSE])
                   ELSE IF vms[id].status = "stopped" THEN AfterStop(t)
                   ELSE IF t.polls + 1 >= StopPolls
                   THEN AfterStop([t EXCEPT !.polls = StopPolls, !.stopped = FALSE])
                   ELSE [t EXCEPT !.polls = @ + 1]
           /\ faults' = faults + Cost(ok)
    /\ UNCHANGED <<cluster, registry, dist, wt, gop, hyp, groups, stand, userList, d, s, log>>

\* Step 6 (line 467, _delete_bridges): the collected bridges are deleted, in
\* the order the set yields them.
TeardownDeleteBridge ==
    /\ t.pc = "del_bridges"
    /\ IF t.todo = {}
       THEN /\ t' = [t EXCEPT !.pc = "reload"]
            /\ UNCHANGED <<bridges, vlanAware, log, faults>>
       ELSE \E pair \in t.todo : \E ok \in Outcome :
            LET good == ok /\ pair[1] \in bridges[pair[2]]
                ms == {t.members[i] : i \in DOMAIN t.members}
            IN /\ bridges' = IF good THEN [bridges EXCEPT ![pair[2]] = @ \ {pair[1]}]
                             ELSE bridges
               /\ vlanAware' = IF good THEN [vlanAware EXCEPT ![pair[2]] = @ \ {pair[1]}]
                               ELSE vlanAware
               /\ log' = Append(log, [Ev("del_bridge", pair[2], pair[1],
                                         Cardinality(Referencing(vms, ms, pair)))
                                      EXCEPT !.busy = {}])
               /\ t' = [t EXCEPT !.todo = @ \ {pair}]
               /\ faults' = faults + Cost(ok)
    /\ UNCHANGED <<cluster, registry, dist, wt, gop, vms, pools, pveUsers, acl, tasks, groups, stand,
                   userList, d, s>>

\* Step 7 (line 474, _reload_network_on_nodes).
TeardownReload ==
    /\ t.pc = "reload"
    /\ IF t.nodes = {}
       THEN /\ t' = [t EXCEPT !.i = 1, !.pc = "del_vm"]
            /\ UNCHANGED <<log, faults>>
       ELSE \E n \in t.nodes : \E ok \in Outcome :
            /\ log' = Append(log, [Ev("td_reload", n, 0, IF ok THEN 1 ELSE 0)
                                   EXCEPT !.busy = {}])
            /\ t' = [t EXCEPT !.nodes = @ \ {n}]
            /\ faults' = faults + Cost(ok)
    /\ UNCHANGED <<cluster, registry, dist, wt, gop, hyp, groups, stand, userList, d, s>>

\* Step 8 (line 478, _delete_vms_from_pool): the delete request of one member;
\* the hypervisor refuses to destroy a running VM.
TeardownDeleteVm ==
    /\ t.pc = "del_vm"
    /\ \E ok \in Outcome :
        LET id == t.members[t.i]
            good == ok /\ id \in DOMAIN vms /\ vms[id].status = "stopped"
            upid == Len(tasks) + 1
        IN /\ tasks' = IF good THEN Append(tasks, Task("delete", vms[id].node, id, NoNode))
                       ELSE tasks
           /\ log' = Append(log, [Ev("del_vm", NoNode, id, IF good THEN upid ELSE 0)
                                  EXCEPT !.busy = {}])
           /\ t' = IF good THEN [t EXCEPT !.upid = upid, !.pc = "wait_del"]
                   ELSE AfterDelete(t)
           /\ faults' = faults + Cost(ok)
    /\ UNCHANGED <<cluster, registry, dist, wt, gop, vms, bridges, vlanAware, pools, pveUsers, acl, groups,
                   stand, userList, d, s>>

\* _delete_pool_and_user, lines 318-325: the hypervisor refuses to delete a
\* pool that has members.
TeardownDeletePool ==
    /\ t.pc \in {"del_pool", "empty_pool"}
    /\ \E ok \in Outcome :
        LET good == ok /\ t.pool \in pools /\ PoolMembers(vms, t.pool) = {}
        IN /\ pools' = IF good THEN pools \ {t.pool} ELSE pools
           /\ acl' = IF good THEN {e \in acl : ~(e.kind = "pool" /\ e.pool = t.pool)}
                     ELSE acl
           /\ t' = [t EXCEPT !.pool_deleted = good,
                             !.pc = IF t.pc = "del_pool" THEN "del_user" ELSE "empty_user"]
           /\ faults' = faults + Cost(ok)
    /\ UNCHANGED <<cluster, registry, dist, wt, gop, vms, bridges, vlanAware, pveUsers, tasks, groups, stand,
                   userList, d, s, log>>

\* _delete_pool_and_user, lines 327-334, then the group index (lines 432-435
\* and 489-494) and the return value.
TeardownDeleteUser ==
    /\ t.pc \in {"del_user", "empty_user"}
    /\ \E ok \in Outcome :
        LET good == ok /\ t.user \in pveUsers
            success == t.deleted > 0 \/ t.pool_deleted \/ good
            gs == FindUserGroup(groups, t.user)
        IN /\ pveUsers' = IF good THEN pveUsers \ {t.user} ELSE pveUsers
           /\ acl' = IF good THEN {e \in acl : e.user # t.user} ELSE acl
           /\ groups' = IF gs = {} THEN groups
                        ELSE RemoveUserFromGroup(groups, CHOOSE g \in gs : TRUE, t.user)
           /\ t' = TReturn([t EXCEPT !.user_deleted = good],
                           IF t.pc = "empty_user" \/ success THEN "true" ELSE "false")
           /\ faults' = faults + Cost(ok)
    /\ UNCHANGED <<cluster, registry, dist, wt, gop, vms, bridges, vlanAware, pools, tasks, stand, userList,
                   d, s, log>>

\* deletion._normalize_user (lines 36-42): a login without a realm gets @pve.
NormalizeUser(u) == IF u.realm = "" THEN [u EXCEPT !.realm = "pve"] ELSE u

\* delete_all_user_stands, lines 505-528: the list is selected and
\* delete_user_stand_logic called for its first user, with auto_stop.
BulkStart ==
    /\ d.pc \in {"idle", "done", "raised"}
    /\ t.pc = "idle"
    /\ s.pc = "idle"
    /\ t.bulks < MaxBulks
    /\ t' = TeardownEnter([t EXCEPT !.bulk = 1, !.bulks = @ + 1, !.count = 0,
                                    !.failed = <<>>],
                          NormalizeUser(userList.users[1]), TRUE)
    /\ UNCHANGED <<cluster, registry, dist, wt, gop, hyp, groups, stand, userList, d, s, faults, log>>

\* delete_all_user_stands, lines 530-541: the result of the call is counted
\* and the loop goes on with the next user, or ends.
BulkNext ==
    /\ t.pc = "bulk_next"
    /\ LET f == IF t.ret = "true" THEN [t EXCEPT !.count = @ + 1]
                ELSE [t EXCEPT !.failed = Append(@, userList.users[t.bulk])]
       IN t' = IF t.bulk < Len(userList.users)
               THEN TeardownEnter([f EXCEPT !.bulk = @ + 1],
                                  NormalizeUser(userList.users[t.bulk + 1]), TRUE)
               ELSE [f EXCEPT !.pc = "idle", !.bulk = 0]
    /\ UNCHANGED <<cluster, registry, dist, wt, gop, hyp, groups, stand, userList, d, s, faults, log>>

\* ---------------------------------------------------------------- the stands
Template(node) == [VM(node, "template", NoPool) EXCEPT !.template = TRUE, !.cloning = FALSE]

Alice == User("alice", "pve")
Bob == User("bob", "pve")

UserLists ==
    {[file |-> "one", users |-> <<Alice>>], [file |-> "two", users |-> <<Alice, Bob>>]}

\* The replicas recorded in a stand whose templates were synchronised to pve2.
Synced(on) == IF on THEN [n \in {"pve2"} |-> 110] ELSE NoReplicas
Synced2(on) == IF on THEN [n \in {"pve2"} |-> 111] ELSE NoReplicas

\* C15, mutant: no management port is put before the NICs of a router.
AddVmNetworksPlain(device_type, declared) == declared

\* add_vm_to_stand, lines 150-162: the networks of a machine are the NICs the
\* operator enters, after the management port '**vmbr0' for a router.
AddVmNetworks(device_type, declared) ==
    IF device_type = "ecorouter" THEN <<Static(0)>> \o declared ELSE declared

\* The NICs the operator enters for the machines of the stands.
Declared ==
    [pc |-> <<Alias("lan"), AliasVlan("lan", 200)>>,
     ws |-> <<Static(0), Alias("lan")>>,
     r1 |-> <<Alias("lan"), AliasVlan("wan", 10)>>]

\* The stands: none with machines, the one of a linux machine on a plain and
\* a tagged NIC of one alias, and one of a linux machine and a router.
Stands(on) ==
    {[file |-> "empty", machines |-> <<>>],
     [file |-> "pc", machines |->
        <<Machine("pc", "linux", 100, "pve1", AddVmNetworks("linux", Declared.pc),
                  Synced(on))>>],
     [file |-> "net", machines |->
        <<Machine("ws", "linux", 100, "pve1", AddVmNetworks("linux", Declared.ws),
                  Synced(on)),
          Machine("r1", "ecorouter", 101, "pve1", AddVmNetworks("ecorouter", Declared.r1),
                  Synced2(on))>>]}

\* The cluster before the program runs: the templates on pve1, and on pve2
\* their replicas when the stand records them.
InitVms(on) ==
    IF on THEN (100 :> Template("pve1")) @@ (101 :> Template("pve1"))
               @@ (110 :> Template("pve2")) @@ (111 :> Template("pve2"))
    ELSE (100 :> Template("pve1")) @@ (101 :> Template("pve1"))

\* The stand and the user list the operator selects.
Scenarios(on) ==
    {<<st, ul>> \in Stands(on) \X UserLists :
        Len(st.machines) * Len(ul.users) <= MaxVms}

Init ==
    /\ cluster \in {<<"pve1">>, <<"pve1", "pve2">>}
    /\ \E on \in (IF Len(cluster) > 1 THEN BOOLEAN ELSE {FALSE}) :
        /\ \E sc \in Scenarios(on) :
            /\ stand = sc[1]
            /\ userList = sc[2]
        /\ vms = InitVms(on)
    /\ bridges = [n \in {cluster[i] : i \in DOMAIN cluster} |-> {0}]
    /\ vlanAware = [n \in {cluster[i] : i \in DOMAIN cluster} |-> {}]
    /\ pools = {}
    /\ pveUsers = {}
    /\ acl = {}
    /\ tasks = <<>>
    /\ groups = [g \in {} |-> <<>>]
    /\ registry = NoRegistry
    /\ d = DIdle
    /\ t = TIdle
    /\ s = SIdle
    /\ dist = XIdle
    /\ wt = WIdle
    /\ gop = NoCall
    /\ faults = 0
    /\ log = <<>>

Next ==
    \/ CreateStandsMenu
    \/ DeployPlan
    \/ DeployBridge
    \/ DeployCreateUser
    \/ DeployCreatePool
    \/ DeployPoolAcl
    \/ DeployNextId
    \/ DeployClone
    \/ DeployWait
    \/ DeployNic
    \/ DeployVmAcl
    \/ DeploySnapshot
    \/ DeployResult
    \/ DeployReload
    \/ TaskFinish
    \/ StartVm
    \/ TeardownStart
    \/ TeardownValidate
    \/ TeardownCollect
    \/ TeardownConfirm
    \/ TeardownStop
    \/ TeardownWait
    \/ TeardownPollStop
    \/ TeardownDeleteBridge
    \/ TeardownReload
    \/ TeardownDeleteVm
    \/ TeardownDeletePool
    \/ TeardownDeleteUser

Spec == Init /\ [][Next]_vars

\* ------------------------------------------------------------ sync_templates
RECURSIVE Distinct(_, _)
Distinct(q, seen) ==
    IF q = <<>> THEN <<>>
    ELSE IF Head(q) \in seen THEN Distinct(Tail(q), seen)
    ELSE <<Head(q)>> \o Distinct(Tail(q), seen \cup {Head(q)})

\* _group_machines_by_template: the template VMIDs of the stand, in the order
\* of their first machine, and the machines (indices) of one of them.
GroupMachinesByTemplate(st) ==
    Distinct([i \in DOMAIN st.machines |-> st.machines[i].template_vmid], {})
GroupOf(st, tv) == {i \in DOMAIN st.machines : st.machines[i].template_vmid = tv}

\* machines[0].get('template_node') of the group (line 212).
OriginalNode(st, tv) == st.machines[Min(GroupOf(st, tv))].template_node

\* C8, mutant: the recorded replicas are not looked at.
CheckExistingReplicaNone(st, tv, node) == 0

\* _check_existing_replica: the replica the first machine that records one
\* for the node records; 0 for None.
CheckExistingReplica(st, tv, node) ==
    LET has == {i \in GroupOf(st, tv) : node \in DOMAIN st.machines[i].replicas}
    IN IF has = {} THEN 0 ELSE st.machines[Min(has)].replicas[node]

\* C6, mutant: the template flag is not looked at.
VerifyVmExists(v, node, vmid, ok) ==
    ok /\ vmid \in DOMAIN v /\ v[vmid].node = node

\* _verify_template_exists: the VM is listed on the node with template = 1; a
\* list that cannot be read counts as no.
VerifyTemplateExists(v, node, vmid, ok) ==
    ok /\ vmid \in DOMAIN v /\ v[vmid].node = node /\ v[vmid].template

\* C7, mutant: the record that did not verify is kept.
KeepInvalidReplica(st, tv, node) == st

\* _remove_invalid_replica: the node's entry is deleted from every machine of
\* the group.
RemoveInvalidReplica(st, tv, node) ==
    [st EXCEPT !.machines =
        [i \in DOMAIN @ |->
            IF i \in GroupOf(st, tv)
            THEN [@[i] EXCEPT !.replicas = [n \in DOMAIN @ \ {node} |-> @[n]]]
            ELSE @[i]]]

\* _assign_replicas: every machine of the group records the replica.
AssignReplicas(st, tv, node, vmid) ==
    [st EXCEPT !.machines =
        [i \in DOMAIN @ |->
            IF i \in GroupOf(st, tv)
            THEN [@[i] EXCEPT !.replicas =
                    [n \in DOMAIN @ \cup {node} |-> IF n = node THEN vmid ELSE @[n]]]
            ELSE @[i]]]

STemplate == GroupMachinesByTemplate(stand)[s.gi]
SNode == cluster[s.ni]
SPair == <<STemplate, SNode>>

\* The next (template, node) pair of the loops of lines 207 and 218, or the
\* return of line 246.
SyncAdvance(f) ==
    IF f.ni < Len(cluster) THEN [f EXCEPT !.ni = @ + 1, !.pc = "pair"]
    ELSE IF f.gi < Len(GroupMachinesByTemplate(stand))
    THEN [f EXCEPT !.gi = @ + 1, !.ni = 1, !.pc = "pair"]
    ELSE [f EXCEPT !.pc = "done", !.ret = f.updated]

\* C27, mutant: the failure of a pair leaves sync_templates.
SyncFailRaise(f) == [f EXCEPT !.pc = "raised", !.failed = @ \cup {SPair}]

\* _create_template_replica returned False for the pair (line 243).
SyncFail(f) == SyncAdvance([f EXCEPT !.failed = @ \cup {SPair}])

\* sync_templates(prox, stand, nodes), lines 191-204: the frame of a run;
\* prev_ok notes whether the run before this one ended with no failed pair.
SyncEnter(f) ==
    IF GroupMachinesByTemplate(stand) = <<>>
    THEN [f EXCEPT !.pc = "done", !.run = @ + 1, !.ret = FALSE, !.updated = FALSE,
                   !.failed = {}, !.stale = {}, !.f0 = faults,
                   !.prev_ok = (f.pc = "done" /\ f.failed = {})]
    ELSE [f EXCEPT !.pc = "pair", !.run = @ + 1, !.gi = 1, !.ni = 1,
                   !.updated = FALSE, !.failed = {}, !.stale = {}, !.f0 = faults,
                   !.prev_ok = (f.pc = "done" /\ f.failed = {})]

\* sync_templates is called for the stand and the nodes of the cluster.
SyncStart ==
    /\ s.pc \in {"idle", "done"}
    /\ s.run < MaxSyncs
    /\ dist.pc = "idle"
    /\ s' = SyncEnter(s)
    /\ UNCHANGED <<cluster, registry, dist, wt, gop, hyp, groups, stand, userList, d, t, faults, log>>

\* Lines 218-233: the source node is skipped; a recorded replica that
\* verifies is kept; one that does not is removed from the stand.
SyncPair ==
    /\ s.pc = "pair"
    /\ \E ok \in Outcome :
        LET rep == CheckExistingReplica(stand, STemplate, SNode)
            valid == rep # 0 /\ VerifyTemplateExists(vms, SNode, rep, ok)
            old == IF rep # 0 /\ ~VerifyTemplateExists(vms, SNode, rep, TRUE)
                   THEN {<<STemplate, SNode, rep>>} ELSE {}
        IN IF SNode = OriginalNode(stand, STemplate)
           THEN /\ ok
                /\ s' = SyncAdvance(s)
                /\ UNCHANGED <<stand, faults>>
           ELSE /\ s' = IF valid THEN SyncAdvance(s)
                        ELSE [s EXCEPT !.pc = "clone", !.stale = @ \cup old]
                /\ stand' = IF valid \/ rep = 0 THEN stand
                            ELSE RemoveInvalidReplica(stand, STemplate, SNode)
                /\ faults' = faults + Cost(ok)
    /\ UNCHANGED <<cluster, registry, dist, wt, gop, hyp, groups, userList, d, t, log>>

\* _create_template_replica, line 99: f"tpl-{original_node}-{template_vmid}",
\* the name the clone is given.
SafeName(original_node, template_vmid, target_node) ==
    "tpl-" \o original_node \o "-" \o ToString(template_vmid)

\* _create_template_replica, lines 98-108: the next VMID and the full clone
\* of the template on its own node.
SyncClone ==
    /\ s.pc = "clone"
    /\ \E ok \in Outcome :
        LET src == OriginalNode(stand, STemplate)
            id == NextId(vms)
            good == ok /\ STemplate \in DOMAIN vms /\ vms[STemplate].node = src
            upid == Len(tasks) + 1
        IN /\ vms' = IF good THEN PutVm(vms, id, VM(src, SafeName(src, STemplate, SNode), NoPool))
                     ELSE vms
           /\ tasks' = IF good THEN Append(tasks, Task("clone", src, id, NoNode)) ELSE tasks
           /\ log' = Append(log, [Ev("sync_clone", src, id, IF good THEN upid ELSE 0)
                                  EXCEPT !.slot = <<STemplate, s.ni>>])
           /\ s' = IF good THEN [s EXCEPT !.clone_vmid = id, !.upid = upid,
                                          !.pc = "wait_clone"]
                   ELSE SyncFail(s)
           /\ faults' = faults + Cost(ok)
    /\ UNCHANGED <<cluster, registry, dist, wt, gop, bridges, vlanAware, pools, pveUsers, acl, groups, stand,
                   userList, d, t>>

\* Lines 112, 120, 134: the three waits; an exception of the waiter ends the
\* pair; after the migration the replica is recorded (line 136).
SyncWait ==
    /\ s.pc \in {"wait_clone", "wait_template", "wait_migrate"}
    /\ \E ok \in Outcome :
        LET r == IF ok THEN WaitResult(tasks[s.upid]) ELSE "raise"
        IN /\ r # "poll"
           /\ s' = IF r = "raise" THEN SyncFail(s)
                   ELSE IF s.pc = "wait_clone" THEN [s EXCEPT !.pc = "template"]
                   ELSE IF s.pc = "wait_template" THEN [s EXCEPT !.pc = "migrate"]
                   ELSE SyncAdvance([s EXCEPT !.updated = TRUE])
           /\ stand' = IF r = "ok" /\ s.pc = "wait_migrate"
                       THEN AssignReplicas(stand, STemplate, SNode, s.clone_vmid)
                       ELSE stand
           /\ faults' = faults + Cost(ok)
    /\ UNCHANGED <<cluster, registry, dist, wt, gop, hyp, groups, userList, d, t, log>>

\* Line 119: the clone is converted to a template.
SyncTemplate ==
    /\ s.pc = "template"
    /\ \E ok \in Outcome :
        LET src == OriginalNode(stand, STemplate)
            good == ok /\ s.clone_vmid \in DOMAIN vms
            upid == Len(tasks) + 1
        IN /\ tasks' = IF good THEN Append(tasks, Task("template", src, s.clone_vmid, NoNode))
                       ELSE tasks
           /\ log' = Append(log, [Ev("sync_template", src, s.clone_vmid,
                                     IF good THEN upid ELSE 0)
                                  EXCEPT !.slot = <<STemplate, s.ni>>])
           /\ s' = IF good THEN [s EXCEPT !.upid = upid, !.pc = "wait_template"]
                   ELSE SyncFail(s)
           /\ faults' = faults + Cost(ok)
    /\ UNCHANGED <<cluster, registry, dist, wt, gop, vms, bridges, vlanAware, pools, pveUsers, acl, groups,
                   stand, userList, d, t>>

\* Lines 127-130: the offline migration to the target node.
SyncMigrate ==
    /\ s.pc = "migrate"
    /\ \E ok \in Outcome :
        LET src == OriginalNode(stand, STemplate)
            good == ok /\ s.clone_vmid \in DOMAIN vms
            upid == Len(tasks) + 1
        IN /\ tasks' = IF good THEN Append(tasks, Task("migrate", src, s.clone_vmid, SNode))
                       ELSE tasks
           /\ log' = Append(log, [Ev("sync_migrate", SNode, s.clone_vmid,
                                     IF good THEN upid ELSE 0)
                                  EXCEPT !.slot = <<STemplate, s.ni>>])
           /\ s' = IF good THEN [s EXCEPT !.upid = upid, !.pc = "wait_migrate"]
                   ELSE SyncFail(s)
           /\ faults' = faults + Cost(ok)
    /\ UNCHANGED <<cluster, registry, dist, wt, gop, vms, bridges, vlanAware, pools, pveUsers, acl, groups,
                   stand, userList, d, t>>

\* What a machine of a stand may record for pve2 before a synchronisation:
\* nothing, the replica, a VM that is gone, a VM that is no template.  The
\* machines of one template record the same replica (_assign_replicas), or
\* none where a machine was added to the stand later.
Recorded(valid) ==
    {NoReplicas, [n \in {"pve2"} |-> valid], [n \in {"pve2"} |-> 120],
     [n \in {"pve2"} |-> 121]}

SyncStands ==
    {[file |-> "empty", machines |-> <<>>]}
    \cup {[file |-> "pc", machines |->
            <<Machine("pc", "linux", 100, "pve1", <<Alias("lan")>>, r)>>] : r \in Recorded(110)}
    \cup {[file |-> "net", machines |->
            <<Machine("pc", "linux", 100, "pve1", <<Alias("lan")>>, r[1]),
              Machine("r1", "ecorouter", 101, "pve1", <<Alias("lan")>>, r[2])>>] :
            r \in Recorded(110) \X Recorded(111)}
    \cup {[file |-> "twin", machines |->
            <<Machine("pc1", "linux", 100, "pve1", <<Alias("lan")>>, r[1]),
              Machine("pc2", "linux", 100, "pve1", <<Alias("lan")>>, r[2])>>] :
            r \in {x \in Recorded(110) \X Recorded(110) :
                        x[1] = x[2] \/ NoReplicas \in {x[1], x[2]}}}

InitSync ==
    /\ cluster \in {<<"pve1", "pve2">>, <<"pve1", "pve2", "pve3">>}
    /\ stand \in SyncStands
    /\ userList \in {ul \in UserLists : Len(ul.users) = 1}
    /\ vms = InitVms(TRUE) @@ (121 :> [VM("pve2", "vm", NoPool) EXCEPT !.cloning = FALSE])
    /\ bridges = [n \in {cluster[i] : i \in DOMAIN cluster} |-> {0}]
    /\ vlanAware = [n \in {cluster[i] : i \in DOMAIN cluster} |-> {}]
    /\ pools = {}
    /\ pveUsers = {}
    /\ acl = {}
    /\ tasks = <<>>
    /\ groups = [g \in {} |-> <<>>]
    /\ registry = NoRegistry
    /\ d = DIdle
    /\ t = TIdle
    /\ s = SIdle
    /\ dist = XIdle
    /\ wt = WIdle
    /\ gop = NoCall
    /\ faults = 0
    /\ log = <<>>

NextSync ==
    \/ SyncStart
    \/ SyncPair
    \/ SyncClone
    \/ SyncWait
    \/ SyncTemplate
    \/ SyncMigrate
    \/ TaskFinish

SpecSync == InitSync /\ [][NextSync]_vars

\* ------------------------------------------------ deploy_stand_distributed
Carol == User("carol", "pve")

DistUserLists == UserLists \cup {[file |-> "three", users |-> <<Alice, Bob, Carol>>]}

\* C11, mutant: the index is taken from 1.
TargetNodeFromOne(nodes, user_index) == nodes[((user_index + 1) % Len(nodes)) + 1]

\* Line 131: nodes[user_index % len(nodes)], user_index from 0.
TargetNode(nodes, user_index) == nodes[(user_index % Len(nodes)) + 1]

\* C24, mutant: the number of nodes is not looked at.
AfterNodesAny(n) == "sync"

\* C12, mutant: the templates are not synchronised.
AfterNodesNoSync(n) == IF n < 2 THEN "done" ELSE "users"

\* Lines 110-115: with fewer than two nodes the function returns.
AfterNodes(n) == IF n < 2 THEN "done" ELSE "sync"

\* deploy_stand_distributed, lines 87-113: the stand and the user list are
\* selected, the nodes of the cluster read.
DistStart ==
    /\ dist.pc = "idle"
    /\ d.pc = "idle"
    /\ s.pc = "idle"
    /\ dist' = [dist EXCEPT !.pc = AfterNodes(Len(cluster)), !.ui = 1]
    /\ UNCHANGED <<cluster, registry, wt, gop, hyp, groups, stand, userList, d, t, s, faults, log>>

\* Line 117: sync_templates_func(prox, stand, nodes) is called.
DistSync ==
    /\ dist.pc = "sync"
    /\ s' = SyncEnter(s)
    /\ dist' = [dist EXCEPT !.pc = "syncing", !.syncs = @ + 1]
    /\ UNCHANGED <<cluster, registry, wt, gop, hyp, groups, stand, userList, d, t, faults, log>>

\* Lines 117-126: sync_templates has returned; the stand it updated in place
\* is saved (a failed save is reported only).
DistSynced ==
    /\ dist.pc = "syncing"
    /\ s.pc = "done"
    /\ dist' = [dist EXCEPT !.pc = "users"]
    /\ UNCHANGED <<cluster, registry, wt, gop, hyp, groups, stand, userList, d, t, s, faults, log>>

\* Lines 130-142: deploy_stand_local is called for the next user alone, on
\* the node of the user's index.
DistUser ==
    /\ dist.pc = "users"
    /\ d' = DeployStart(<<userList.users[dist.ui]>>, TargetNode(cluster, dist.ui - 1))
    /\ dist' = [dist EXCEPT !.pc = "deploy"]
    /\ UNCHANGED <<cluster, registry, wt, gop, hyp, groups, stand, userList, t, s, faults, log>>

\* Line 143: the results of the call are collected; an exception of
\* deploy_stand_local leaves deploy_stand_distributed.
DistReturn ==
    /\ dist.pc = "deploy"
    /\ d.pc \in {"done", "raised"}
    /\ dist' = IF d.pc = "raised" THEN [dist EXCEPT !.pc = "raised"]
               ELSE [dist EXCEPT !.results = @ \o d.results, !.ui = @ + 1,
                                 !.pc = IF dist.ui + 1 > Len(userList.users) THEN "done"
                                        ELSE "users"]
    /\ UNCHANGED <<cluster, registry, wt, gop, hyp, groups, stand, userList, d, t, s, faults, log>>

InitDist ==
    /\ cluster \in {<<"pve1">>, <<"pve1", "pve2">>}
    /\ \E on \in (IF Len(cluster) > 1 THEN BOOLEAN ELSE {FALSE}) :
        /\ stand \in Stands(on)
        /\ vms = InitVms(on)
    /\ userList \in DistUserLists
    /\ bridges = [n \in {cluster[i] : i \in DOMAIN cluster} |-> {0}]
    /\ vlanAware = [n \in {cluster[i] : i \in DOMAIN cluster} |-> {}]
    /\ pools = {}
    /\ pveUsers = {}
    /\ acl = {}
    /\ tasks = <<>>
    /\ groups = [g \in {} |-> <<>>]
    /\ registry = NoRegistry
    /\ d = DIdle
    /\ t = TIdle
    /\ s = SIdle
    /\ dist = XIdle
    /\ wt = WIdle
    /\ gop = NoCall
    /\ faults = 0
    /\ log = <<>>

NextDist ==
    \/ DistStart
    \/ DistSync
    \/ DistSynced
    \/ DistUser
    \/ DistReturn
    \/ SyncPair
    \/ SyncClone
    \/ SyncWait
    \/ SyncTemplate
    \/ SyncMigrate
    \/ DeployPlan
    \/ DeployBridge
    \/ DeployCreateUser
    \/ DeployCreatePool
    \/ DeployPoolAcl
    \/ DeployNextId
    \/ DeployClone
    \/ DeployWait
    \/ DeployNic
    \/ DeployVmAcl
    \/ DeploySnapshot
    \/ DeployResult
    \/ DeployReload
    \/ TaskFinish

SpecDist == InitDist /\ [][NextDist]_vars

\* --------------------------------------------------- delete_all_user_stands
\* The stands of a list are deployed on a cluster of one node, a stand may be
\* torn down, and then the stands of the whole list are.
InitBulk ==
    /\ Init
    /\ cluster = <<"pve1">>

NextBulk ==
    \/ Next
    \/ BulkStart
    \/ BulkNext

SpecBulk == InitBulk /\ [][NextBulk]_vars

\* ------------------------------------------------------ the bridge planner
\* The vmbr<N> numbers found on the node when a stand is planned: none of the
\* stand range, some of it, all but the last, all of it.
PlanExisting ==
    {{0}, {0, 1000}, {0, 1001}, {0, 1000, 1001}, {0, 1, 1000, 1002},
     {0} \cup (BridgeLo..(BridgeHi - 1)), {0} \cup (BridgeLo..BridgeHi)}

\* The stands that are planned: those above, one whose alias is seen with a
\* VLAN first and without one later, and one of two machines that mixes
\* static bindings, both orders and an alias never seen with a VLAN.
PlanStands ==
    Stands(FALSE)
    \cup {[file |-> "rev", machines |->
            <<Machine("pc", "linux", 100, "pve1",
                      AddVmNetworks("linux", <<AliasVlan("lan", 200), Alias("lan")>>),
                      NoReplicas)>>],
          [file |-> "mix", machines |->
            <<Machine("m1", "linux", 100, "pve1",
                      AddVmNetworks("linux", <<Alias("lan"), Static(0), AliasVlan("lan", 200)>>),
                      NoReplicas),
              Machine("m2", "linux", 100, "pve1",
                      AddVmNetworks("linux", <<AliasVlan("wan", 10), Alias("wan"),
                                                Static(1), Alias("dmz")>>),
                      NoReplicas)>>]}

InitPlan ==
    /\ cluster = <<"pve1">>
    /\ stand \in PlanStands
    /\ userList \in UserLists
    /\ vms = InitVms(FALSE)
    /\ bridges \in {[n \in {"pve1"} |-> pre] : pre \in PlanExisting}
    /\ vlanAware = [n \in {"pve1"} |-> {}]
    /\ pools = {}
    /\ pveUsers = {}
    /\ acl = {}
    /\ tasks = <<>>
    /\ groups = [g \in {} |-> <<>>]
    /\ registry = NoRegistry
    /\ d = DIdle
    /\ t = TIdle
    /\ s = SIdle
    /\ dist = XIdle
    /\ wt = WIdle
    /\ gop = NoCall
    /\ faults = 0
    /\ log = <<>>

\* deploy_stand_local is entered for the user list (lines 296-316).
PlanStart ==
    /\ d.pc = "idle"
    /\ d' = DeployStart(userList.users, NoNode)
    /\ UNCHANGED <<cluster, registry, dist, wt, gop, hyp, groups, stand, userList, t, s, faults, log>>

NextPlan ==
    \/ PlanStart
    \/ DeployPlan
    \/ DeployBridge

SpecPlan == InitPlan /\ [][NextPlan]_vars

\* ------------------------------------------------------------ wait_for_task
\* The waiter alone: the hypervisor answers each status query as it likes.
InitWait ==
    /\ cluster = <<"pve1">>
    /\ stand \in {st \in Stands(FALSE) : st.file = "empty"}
    /\ userList \in {ul \in UserLists : ul.file = "one"}
    /\ vms = InitVms(FALSE)
    /\ bridges = [n \in {"pve1"} |-> {0}]
    /\ vlanAware = [n \in {"pve1"} |-> {}]
    /\ pools = {}
    /\ pveUsers = {}
    /\ acl = {}
    /\ tasks = <<>>
    /\ groups = [g \in {} |-> <<>>]
    /\ registry = NoRegistry
    /\ d = DIdle
    /\ t = TIdle
    /\ s = SIdle
    /\ dist = XIdle
    /\ wt = WIdle
    /\ gop = NoCall
    /\ faults = 0
    /\ log = <<>>

NextWait ==
    \/ WaitCall
    \/ WaitPoll
    \/ WaitTimeout

SpecWait == InitWait /\ [][NextWait]_vars

\* ------------------------------------------------------ the template registry
\* templates.yaml after ensure_template_on_node made the replicas of both
\* templates on pve2 (register_replica, templates.py lines 139-170).
Registered ==
    [v \in {100, 101} |-> [source_node |-> "pve1", replicas |-> [n \in {"pve2"} |-> v + 10]]]

\* A cluster of two nodes with the replicas of the templates on pve2; the
\* registry records them or is empty, the stand records them or not.
InitRegistry ==
    /\ cluster = <<"pve1", "pve2">>
    /\ \E on \in BOOLEAN : \E sc \in Scenarios(on) :
        /\ stand = sc[1]
        /\ userList = sc[2]
    /\ vms = InitVms(TRUE)
    /\ registry \in {NoRegistry, Registered}
    /\ bridges = [n \in {"pve1", "pve2"} |-> {0}]
    /\ vlanAware = [n \in {"pve1", "pve2"} |-> {}]
    /\ pools = {}
    /\ pveUsers = {}
    /\ acl = {}
    /\ tasks = <<>>
    /\ groups = [g \in {} |-> <<>>]
    /\ d = DIdle
    /\ t = TIdle
    /\ s = SIdle
    /\ dist = XIdle
    /\ wt = WIdle
    /\ gop = NoCall
    /\ faults = 0
    /\ log = <<>>

\* The menu, the deployment and the teardown of Spec, from these states.
SpecRegistry == InitRegistry /\ [][Next]_vars

\* ------------------------------------------------- the stand-management menu
\* The frame of a teardown the menu asks for: _delete_user_stand (ui_menus.py
\* lines 708-718) calls delete_user_stand_logic(prox, pool_name), that is for
\* <pool_name>@pve and without auto_stop; what the call returns is dropped.
MenuEnter(f, kind, group, users, i) ==
    [TeardownEnter(f, PveUser(users[i]), FALSE)
        EXCEPT !.menu = kind, !.group = group, !.musers = users, !.mi = i,
               !.rets = IF i = 1 THEN <<>> ELSE f.rets]

\* manage_group_users_menu, action 3 (lines 599-602): the stand of one user
\* of a group is deleted.
MenuDeleteUser ==
    /\ d.pc \in {"idle", "done", "raised"}
    /\ t.pc = "idle"
    /\ s.pc = "idle"
    /\ t.runs < MaxTeardowns
    /\ \E g \in DOMAIN groups : \E i \in DOMAIN groups[g] :
        t' = MenuEnter(t, "user", g, <<groups[g][i]>>, 1)
    /\ UNCHANGED <<cluster, registry, dist, wt, gop, hyp, groups, stand, userList, d, s, faults, log>>

\* manage_group_menu, choice 3, and _delete_all_group_stands (lines 535-540,
\* 635-646): the stands of the users the group listed when the menu was
\* opened are deleted one after the other.
MenuDeleteAll ==
    /\ d.pc \in {"idle", "done", "raised"}
    /\ t.pc = "idle"
    /\ s.pc = "idle"
    /\ t.runs < MaxTeardowns
    /\ \E g \in DOMAIN groups :
        /\ groups[g] # <<>>
        /\ t' = MenuEnter(t, "all", g, groups[g], 1)
    /\ UNCHANGED <<cluster, registry, dist, wt, gop, hyp, groups, stand, userList, d, s, faults, log>>

\* The teardown has returned to the menu.  Per user (lines 603-604):
\* remove_user_from_group(group_name, username).  For the group (lines
\* 641-644): the next user, and after the last one delete_group(group_name).
MenuNext ==
    /\ t.pc = "menu_next"
    /\ LET f == [t EXCEPT !.rets = Append(@, t.ret)]
       IN IF t.menu = "user"
          THEN /\ groups' = RemoveUserFromGroup(groups, t.group, t.musers[1])
               /\ t' = [f EXCEPT !.pc = "idle"]
          ELSE IF t.mi < Len(t.musers)
          THEN /\ t' = MenuEnter(f, "all", t.group, t.musers, t.mi + 1)
               /\ UNCHANGED groups
          ELSE /\ groups' = DeleteGroup(groups, t.group)
               /\ t' = [f EXCEPT !.pc = "idle"]
    /\ UNCHANGED <<cluster, registry, dist, wt, gop, hyp, stand, userList, d, s, faults, log>>

\* The stands of a list are deployed on a cluster of one node (InitBulk) and
\* deleted from the menu, a user or the whole group.
NextMenu ==
    \/ Next
    \/ MenuDeleteUser
    \/ MenuDeleteAll
    \/ MenuNext

SpecMenu == InitBulk /\ [][NextMenu]_vars

\* ------------------------------------------------------------------ claims
Events(op) == {i \in DOMAIN log : log[i].op = op}
Returned == d.pc = "done"
Deployed == {d.results[i].user : i \in DOMAIN d.results}

\* C1 (as claimed): once deploy_stand_local has returned a result for the
\* single user u, and no hypervisor call was made to fail, pool u.login holds
\* exactly |stand.machines| VMs, each with a 'start' snapshot and an ACL entry
\* /vms/<vmid> PVEVMUser for <login>@pve.
C1_PoolComplete ==
    (Returned /\ faults = 0 /\ t.runs = 0 /\ Len(d.users) = 1) =>
        \A p \in Deployed :
            /\ Cardinality(PoolMembers(vms, p)) = Len(stand.machines)
            /\ \A id \in PoolMembers(vms, p) :
                /\ "start" \in vms[id].snaps
                /\ VmAcl(id, User(p, "pve")) \in acl

CloneBusy(e) == \E b \in e.busy : b.kind = "clone" /\ b.vmid = e.id
SnapshotBusy(e) == \E b \in e.busy : b.kind = "snapshot"

NicsBeforeSnapshot ==
    \A i \in Events("snapshot") : \A j \in Events("nic") :
        log[i].slot = log[j].slot => j < i
SnapshotBeforeNextClone == \A i \in Events("clone") : ~SnapshotBusy(log[i])

Before(opa, opb) ==
    \A i \in Events(opa) : \A j \in Events(opb) : log[i].run = log[j].run => i < j

LeftBridges ==
    {i \in Events("bridge_post") : log[i].arg = 1 /\ log[i].id \in bridges[log[i].node]}

\* C4 (as claimed): after a stand was deployed for a single user and
\* delete_user_stand_logic returned True for that user, with no hypervisor
\* call made to fail, there is no pool <login>, no user <login>@pve, no
\* bridge the deployment created, and no group that lists the user.
C4_RoundTrip ==
    (/\ Returned /\ faults = 0 /\ Len(d.users) = 1
     /\ t.pc = "idle" /\ t.ret = "true" /\ t.pool \in Deployed) =>
        /\ t.pool \notin pools
        /\ t.user \notin pveUsers
        /\ LeftBridges = {}
        /\ FindUserGroup(groups, t.user) = {}

\* C9 (as claimed): a user is listed in the group index only once the
\* deployment has returned a result for that user.
C9_ListedAfterDeployed ==
    faults = 0 =>
        \A g \in DOMAIN groups : \A i \in DOMAIN groups[g] :
            Returned /\ groups[g][i].login \in Deployed

C5_PlanFresh ==
    (d.pc = "bridge_post" /\ d.bi = 1 /\ faults = 0) =>
        \A i \in DOMAIN d.plan :
            /\ BridgeLo <= d.plan[i].vmbr /\ d.plan[i].vmbr <= BridgeHi
            /\ d.plan[i].vmbr \notin bridges[d.node]
            /\ \A j \in DOMAIN d.plan : d.plan[j].vmbr = d.plan[i].vmbr => j = i

\* The (template, node) pairs sync_templates has to provide for.
Pairs ==
    {<<stand.machines[i].template_vmid, cluster[n]>> :
        i \in DOMAIN stand.machines, n \in DOMAIN cluster}
    \ {<<stand.machines[i].template_vmid, OriginalNode(stand, stand.machines[i].template_vmid)>> :
        i \in DOMAIN stand.machines}
IsTemplateOn(id, node) == id \in DOMAIN vms /\ vms[id].node = node /\ vms[id].template
SyncReturned == s.pc = "done"
SyncCalls(run) ==
    {i \in DOMAIN log : /\ log[i].op \in {"sync_clone", "sync_template", "sync_migrate"}
                        /\ log[i].run = run}
NodeIndex(n) == CHOOSE i \in DOMAIN cluster : cluster[i] = n

C7_StaleReplaced ==
    \A x \in s.stale :
        /\ \A i \in GroupOf(stand, x[1]) :
            x[2] \in DOMAIN stand.machines[i].replicas =>
                IsTemplateOn(stand.machines[i].replicas[x[2]], x[2])
        /\ (SyncReturned /\ <<x[1], x[2]>> \notin s.failed) =>
            /\ \A i \in GroupOf(stand, x[1]) : x[2] \in DOMAIN stand.machines[i].replicas
            /\ \E a \in SyncCalls(s.run) : \E b \in SyncCalls(s.run) : \E c \in SyncCalls(s.run) :
                /\ a < b /\ b < c
                /\ log[a].op = "sync_clone" /\ log[b].op = "sync_template"
                /\ log[c].op = "sync_migrate"
                /\ log[a].slot = <<x[1], NodeIndex(x[2])>>
                /\ log[b].slot = log[a].slot /\ log[c].slot = log[a].slot
                /\ log[c].id = CheckExistingReplica(stand, x[1], x[2])

\* C7, witness: a run that found a stale record has returned, the pair did
\* not fail, and another VMID is recorded in its place.
C7_Witness ==
    /\ SyncReturned
    /\ \E x \in s.stale :
        /\ <<x[1], x[2]>> \notin s.failed
        /\ CheckExistingReplica(stand, x[1], x[2]) \notin {0, x[3]}

\* C8: a run of sync_templates that follows a run in which no pair failed,
\* and in which no hypervisor call fails, issues no clone, template or
\* migrate call and returns False.
C8_SecondRunIdle ==
    (s.run >= 2 /\ s.prev_ok /\ faults = s.f0) =>
        /\ SyncCalls(s.run) = {}
        /\ SyncReturned => ~s.ret

\* C8, witness: the first run created a replica, the second has returned
\* False.
C8_Witness ==
    /\ s.run = 2 /\ SyncReturned /\ s.prev_ok /\ faults = s.f0
    /\ \E i \in SyncCalls(1) : log[i].op = "sync_migrate" /\ log[i].arg > 0
    /\ ~s.ret

\* ----------------------------------------------------------------- groups.py
\* The groups the menus name: '<stand>-<list>' of a stand and a user list.
GroupNames ==
    {GenerateGroupName(st, ul.file) : st \in {"pc", "net"}, ul \in UserLists}
GroupUsers == {Alice, Bob}

\* create_group(group_name, stand_config, user_list, users), with the users
\* of a stored list (which is never empty: users.py lines 76 and 129); the
\* index is stored unless save_groups fails.
GroupCreate ==
    /\ \E ul \in UserLists : \E st \in {"pc", "net"} : \E saved \in BOOLEAN :
        LET name == GenerateGroupName(st, ul.file)
        IN /\ groups' = IF saved THEN CreateGroup(groups, name, ul.users) ELSE groups
           /\ gop' = GroupCall("create_group", name, User("", "pve"), saved)
    /\ UNCHANGED <<cluster, registry, dist, wt, hyp, stand, userList, d, t, s, faults, log>>

\* add_user_to_group(group_name, username).
GroupAddUser ==
    /\ \E name \in GroupNames : \E u \in GroupUsers : \E saved \in BOOLEAN :
        /\ groups' = IF saved THEN AddUserToGroup(groups, name, u) ELSE groups
        /\ gop' = GroupCall("add_user_to_group", name, u, saved)
    /\ UNCHANGED <<cluster, registry, dist, wt, hyp, stand, userList, d, t, s, faults, log>>

\* remove_user_from_group(group_name, username).
GroupRemoveUser ==
    /\ \E name \in GroupNames : \E u \in GroupUsers : \E saved \in BOOLEAN :
        /\ groups' = IF saved THEN RemoveUserFromGroup(groups, name, u) ELSE groups
        /\ gop' = GroupCall("remove_user_from_group", name, u, saved)
    /\ UNCHANGED <<cluster, registry, dist, wt, hyp, stand, userList, d, t, s, faults, log>>

\* delete_group(group_name).
GroupDelete ==
    /\ \E name \in GroupNames : \E saved \in BOOLEAN :
        /\ groups' = IF saved THEN DeleteGroup(groups, name) ELSE groups
        /\ gop' = GroupCall("delete_group", name, User("", "pve"), saved)
    /\ UNCHANGED <<cluster, registry, dist, wt, hyp, stand, userList, d, t, s, faults, log>>

InitGroups == InitWait

NextGroups ==
    \/ GroupCreate
    \/ GroupAddUser
    \/ GroupRemoveUser
    \/ GroupDelete

SpecGroups == InitGroups /\ [][NextGroups]_vars

\* The node of the user at index i (from 0) of the list: nodes[i mod |nodes|].
NodeOfIndex(i) == cluster[(i % Len(cluster)) + 1]
UserIndex(login) ==
    CHOOSE i \in DOMAIN userList.users : userList.users[i].login = login

\* C11: in a distributed deployment the user at index i (from 0) of the list
\* is deployed on nodes[i mod |nodes|]: the call of deploy_stand_local for the
\* user, every clone issued for the user, every VM in the user's pool and the
\* result collected for the user name that node.
C11_RoundRobin ==
    /\ dist.pc = "deploy" => d.node = NodeOfIndex(dist.ui - 1)
    /\ \A e \in Events("clone") : log[e].node = NodeOfIndex(log[e].run - 1)
    /\ \A id \in DOMAIN vms :
        vms[id].pool # NoPool => vms[id].node = NodeOfIndex(UserIndex(vms[id].pool) - 1)
    /\ \A r \in DOMAIN dist.results :
        dist.results[r].node = NodeOfIndex(UserIndex(dist.results[r].user) - 1)

\* C11, witness: three users were deployed on two nodes, the first and the
\* third on pve1, the second on pve2, each with a VM in the pool.
C11_Witness ==
    /\ dist.pc = "done"
    /\ cluster = <<"pve1", "pve2">>
    /\ dist.results = <<[user |-> "alice", node |-> "pve1"], [user |-> "bob", node |-> "pve2"],
                        [user |-> "carol", node |-> "pve1"]>>
    /\ \E a \in PoolMembers(vms, "alice") : vms[a].node = "pve1"
    /\ \E b \in PoolMembers(vms, "bob") : vms[b].node = "pve2"
    /\ \E c \in PoolMembers(vms, "carol") : vms[c].node = "pve1"

\* C12: in a distributed deployment on two or more nodes sync_templates is
\* called exactly once, and it has returned before deploy_stand_local is
\* entered for the first user: no synchronisation call follows a call of a
\* deployment, and no deployment call is made while it runs.
C12_SyncOnceFirst ==
    /\ dist.pc \in {"syncing", "users", "deploy", "done", "raised"} /\ Len(cluster) >= 2 =>
        s.run = 1 /\ dist.syncs = 1
    /\ d.pc # "idle" => s.pc = "done" /\ s.run = 1
    /\ \A i \in Events("clone") : \A j \in SyncCalls(1) : j < i

\* C12, witness: the synchronisation made a replica and the deployment that
\* followed cloned a VM for the second user from it.
C12_Witness ==
    /\ dist.pc = "done"
    /\ \E j \in SyncCalls(1) : log[j].op = "sync_migrate" /\ log[j].arg > 0
    /\ \E i \in Events("clone") : log[i].run = 2 /\ log[i].arg > 0

\* C13: a teardown that finds the user or the pool missing returns False at
\* once: the step that validates changes nothing at the hypervisor, issues
\* no call that changes it, and leaves the group index as it is.
C13_NotFoundNoEffect ==
    [][(/\ t.pc = "validate"
        /\ (t.user \notin pveUsers \/ t.pool \notin pools)
        /\ t' # t) =>
            /\ t'.pc \in {"idle", "bulk_next"}
            /\ t'.ret = "false"
            /\ UNCHANGED <<hyp, groups, log>>]_vars

\* C13, witness: the stand of the only user was torn down, its VM, pool and
\* user deleted, and a second teardown of the same user has returned False.
C13_Witness ==
    /\ Len(userList.users) = 1
    /\ t.runs = 2 /\ t.pc = "bulk_next" /\ t.ret = "false"
    /\ t.user \notin pveUsers /\ t.pool \notin pools
    /\ \E i \in Events("del_vm") : log[i].run = 1 /\ log[i].arg > 0

InRange(n) == BridgeLo <= n /\ n <= BridgeHi

\* C14: a teardown collects and deletes a bridge of a node only if its number
\* lies in 1000..1999 and (no hypervisor call or task failing) a member VM on
\* that node has a NIC on it; vmbr0 stays on every node, also where a member
\* VM has a NIC on it.
C14_OnlyStandBridges ==
    /\ \A pair \in t.todo :
        /\ InRange(pair[1])
        /\ faults = 0 =>
            Referencing(vms, {t.members[i] : i \in DOMAIN t.members}, pair) # {}
    /\ \A e \in Events("del_bridge") :
        /\ InRange(log[e].id)
        /\ faults = 0 => log[e].arg >= 1
    /\ \A n \in DOMAIN bridges : 0 \in bridges[n]

\* C14, witness: the stand of a user with a router on vmbr0 was torn down and
\* a bridge of the stand deleted.
C14_Witness ==
    /\ t.pc = "idle" /\ t.ret = "true"
    /\ \E id \in {t.members[i] : i \in DOMAIN t.members} :
        \E e \in Events("nic") : log[e].id = id /\ log[e].arg = 0 /\ stand.file = "net"
    /\ \E e \in Events("del_bridge") : log[e].arg >= 1 /\ log[e].id \notin bridges[log[e].node]

\* C20: a user whose account, pool or pool ACL cannot be created does not end
\* the loop of deploy_stand_local, and a user whose teardown fails does not
\* end the loop of delete_all_user_stands: when the deployment reloads the
\* network every user of the call has been attempted, and the bulk teardown
\* has counted a result for every user before the one it is at, and for all
\* once it has ended.
C20_BatchContinues ==
    /\ d.pc \in {"reload", "done"} =>
        \A i \in DOMAIN d.users : \E e \in Events("create_user") : log[e].slot[1] = i
    /\ t.bulk > 0 => t.count + Len(t.failed) = t.bulk - 1 /\ t.runs >= t.bulk
    /\ (t.bulks > 0 /\ t.bulk = 0) => t.count + Len(t.failed) = Len(userList.users)

\* C20, witness: the first of two users could not be created and the second
\* was deployed; the teardown of the first then failed and the second was
\* torn down.
C20_Witness ==
    /\ Len(userList.users) = 2
    /\ d.pc = "done"
    /\ \E e \in Events("create_user") : log[e].slot[1] = 1 /\ log[e].arg = 0
    /\ \E e \in Events("create_user") : log[e].slot[1] = 2 /\ log[e].arg = 1
    /\ t.bulks = 1 /\ t.bulk = 0 /\ t.pc = "idle"
    /\ t.failed = <<userList.users[1]>> /\ t.count = 1

\* The machine whose NICs the deployment has just written, no hypervisor
\* call or task having failed.
NicsWritten(device_type) ==
    /\ d.pc \in {"vm_acl", "snapshot", "wait_snap"}
    /\ faults = 0
    /\ DMachine.device_type = device_type

Bridge(nic) == IF nic.static THEN nic.num ELSE PlanEntry(d.plan, nic.alias).vmbr

\* C15: the VM of a router has net0 = model vmxnet3, bridge vmbr0,
\* link_down=1, generated MAC, and the k-th NIC the operator declared (k from
\* 0) on net(k+1), model vmxnet3 with a generated MAC, on the bridge planned
\* for its alias, with the tag of its VLAN; for [lan, wan.10]: net1 on lan's
\* bridge, net2 on wan's bridge with tag 10.
C15_RouterNics ==
    NicsWritten("ecorouter") =>
        LET nets == vms[d.vmid].nets
            dec == Declared[DMachine.name]
        IN /\ DOMAIN nets = 0..Len(dec)
           /\ nets[0] = [model |-> "vmxnet3", bridge |-> 0, tag |-> 0, link_down |-> 1,
                         mac |-> TRUE]
           /\ \A k \in 0..(Len(dec) - 1) :
                nets[k + 1] = [model |-> "vmxnet3", bridge |-> Bridge(dec[k + 1]),
                               tag |-> dec[k + 1].vlan, link_down |-> 0, mac |-> TRUE]
           /\ DMachine.name = "r1" =>
                /\ nets[1].bridge = PlanEntry(d.plan, "lan").vmbr /\ nets[1].tag = 0
                /\ nets[2].bridge = PlanEntry(d.plan, "wan").vmbr /\ nets[2].tag = 10
                /\ nets[1].bridge # nets[2].bridge

\* C15, witness: the three NICs of the router r1 are written and its
\* snapshot is being made.
C15_Witness ==
    /\ NicsWritten("ecorouter")
    /\ DMachine.name = "r1"
    /\ d.pc = "wait_snap"
    /\ DOMAIN vms[d.vmid].nets = {0, 1, 2}

\* C16: the VM of a linux machine has its i-th declared NIC on net<i>, model
\* virtio, no link_down, no MAC: a static binding on the bridge it names, an
\* alias on the bridge planned for the alias, an alias with a VLAN also with
\* tag = the VLAN; each NIC was written by a config call of its own.
C16_LinuxNics ==
    NicsWritten("linux") =>
        LET nets == vms[d.vmid].nets
            dec == Declared[DMachine.name]
        IN /\ DOMAIN nets = 0..(Len(dec) - 1)
           /\ \A i \in 0..(Len(dec) - 1) :
                /\ nets[i] = [model |-> "virtio", bridge |-> Bridge(dec[i + 1]),
                              tag |-> dec[i + 1].vlan, link_down |-> 0, mac |-> FALSE]
                /\ Cardinality({e \in Events("nic") :
                        log[e].slot = <<d.ui, d.mi>> /\ log[e].arg = i}) = 1
           /\ DMachine.name = "pc" =>
                /\ nets[0].bridge = nets[1].bridge
                /\ nets[0].tag = 0 /\ nets[1].tag = 200
           /\ DMachine.name = "ws" => nets[0].bridge = 0

\* C16, witness: the NICs of the linux machine pc, one on the alias and one
\* on the alias with VLAN 200, are written.
C16_Witness ==
    /\ NicsWritten("linux")
    /\ DMachine.name = "pc"
    /\ d.pc = "wait_snap"
    /\ DOMAIN vms[d.vmid].nets = {0, 1}

\* The NIC bindings of the stand, and the aliases among them.
StandNics == FlattenNics(stand.machines)
StandAliases == {StandNics[i].alias : i \in {j \in DOMAIN StandNics : ~StandNics[j].static}}
Tagged(a) == \E i \in DOMAIN StandNics : StandNics[i].alias = a /\ StandNics[i].vlan # 0

\* C17: the plan create_bridges makes has one entry for every alias of the
\* stand and none else (none for a static binding); the entry of an alias is
\* VLAN-aware if and only if some binding of the alias in the stand has a
\* VLAN, whichever binding of the alias comes first.
C17_VlanAwareIff ==
    d.pc = "bridge_post" \/ (d.pc = "create_user" /\ d.bi = 1) =>
        /\ {d.plan[i].alias : i \in DOMAIN d.plan} = StandAliases
        /\ Len(d.plan) = Cardinality(StandAliases)
        /\ \A i \in DOMAIN d.plan : d.plan[i].vlan_aware <=> Tagged(d.plan[i].alias)

\* C17, witness: the plan of the stand 'mix' (lan plain then tagged, wan
\* tagged then plain, dmz plain, two static bindings) has lan and wan
\* VLAN-aware and dmz not.
C17_Witness ==
    /\ stand.file = "mix"
    /\ d.pc = "bridge_post"
    /\ Len(d.plan) = 3
    /\ PlanEntry(d.plan, "lan").vlan_aware
    /\ PlanEntry(d.plan, "wan").vlan_aware
    /\ ~PlanEntry(d.plan, "dmz").vlan_aware

\* The exit statuses that begin with OK.
BeginsWithOK == {<<"O", "K">>, <<"O", "K", ":", "w">>}
WaitEnded == wt.pc \in {"true", "false", "raised"}
LastSeen == wt.seen[Len(wt.seen)]

\* C18: wait_for_task returns True if and only if the last status it read,
\* within the timeout, is a stopped task whose exit status begins with OK; a
\* stopped task with another or no exit status, an error of the query or the
\* timeout makes it raise (raise_exceptions) or return False; until then every
\* status it read is of a task not stopped; the only call it issues is the
\* status query.
C18_WaitOutcome ==
    /\ wt.pc = "true" <=>
        /\ wt.seen # <<>>
        /\ LastSeen.status = "stopped"
        /\ LastSeen.exit \in BeginsWithOK
    /\ wt.pc = "true" => Len(wt.seen) <= MaxPolls
    /\ (wt.seen # <<>> /\ ~(LastSeen.status = "running")) => WaitEnded
    /\ \A i \in 1..(Len(wt.seen) - 1) : wt.seen[i].status = "running"
    /\ (WaitEnded /\ wt.pc # "true") =>
        /\ wt.pc = IF wt.raise_exceptions THEN "raised" ELSE "false"
        /\ \/ LastSeen.status = "error"
           \/ LastSeen.status = "stopped" /\ LastSeen.exit \notin BeginsWithOK
           \/ LastSeen.status = "running" /\ Len(wt.seen) = MaxPolls
    /\ \A i \in DOMAIN log : log[i].op = "task_status"
    /\ Len(log) = Len(wt.seen)

\* C18, witness: after a status of a running task the waiter read a stopped
\* task with exit status 'OK:w' and returned True.
C18_Witness ==
    /\ wt.pc = "true"
    /\ Len(wt.seen) = 2
    /\ wt.seen[1].status = "running"
    /\ LastSeen.exit = <<"O", "K", ":", "w">>

ResolveTemplate(reg, m, target_node) ==
    LET r == GetReplicaVmid(reg, m.template_vmid, target_node)
    IN IF r # 0 THEN r
       ELSE IF target_node \in DOMAIN m.replicas THEN m.replicas[target_node]
       ELSE m.template_vmid

\* C21 (as claimed): a machine that is cloned on target_node is cloned from
\* the replica the template registry records for (template_vmid,
\* target_node) if there is one, otherwise from the machine's own
\* replicas[target_node] if present, otherwise from template_vmid.
C21_CloneSource ==
    d.target # NoNode =>
        \A i \in Events("clone") :
            log[i].src = ResolveTemplate(registry, stand.machines[log[i].slot[2]], d.target)

\* The numbers of the stand range with no vmbr interface on the node.
FreeNumbers(node) == (BridgeLo..BridgeHi) \ bridges[node]

\* C22 (as claimed): when the stand needs more aliases than numbers of
\* 1000..1999 are free on the node (none, when all are taken), the planner
\* fails, so that no plan reaches the creation of its bridges, and no bridge
\* numbered 2000 or above is on a node.
C22_ExhaustionFails ==
    /\ (d.pc = "bridge_post" /\ d.bi = 1) =>
        Len(d.plan) <= Cardinality(FreeNumbers(d.node))
    /\ \A n \in DOMAIN bridges : \A b \in bridges[n] : b <= BridgeHi

\* C23 (as claimed): the replica that sync_templates clones for the source
\* template V and the target node T is cloned under the name 'tpl-<V>-<T>'.
C23_ReplicaName ==
    (s.pc = "wait_clone" /\ s.clone_vmid \in DOMAIN vms) =>
        vms[s.clone_vmid].name = "tpl-" \o ToString(STemplate) \o "-" \o SNode

\* C24: on a cluster of one node deploy_stand_distributed returns without a
\* call to the hypervisor, a synchronisation or a deployment; and no
\* migration of a replica is asked for with the node it was cloned on as the
\* target.
C24_OneNodeRefused ==
    /\ Len(cluster) = 1 =>
        /\ dist.pc \in {"idle", "done"}
        /\ dist.syncs = 0 /\ s.pc = "idle" /\ d.pc = "idle"
        /\ log = <<>>
    /\ \A i \in Events("sync_migrate") : \A j \in Events("sync_clone") :
        (log[j].id = log[i].id /\ log[j].run = log[i].run /\ log[j].slot = log[i].slot)
            => log[i].node # log[j].node

\* C24, witness: deploy_stand_distributed was called on a cluster of one node
\* and has returned.
C24_Witness ==
    /\ Len(cluster) = 1
    /\ dist.pc = "done"
    /\ dist.ui = 1
    /\ dist.results = <<>>

\* The steps of a teardown that delete: steps 6 to 9.
Deleting == t.pc \in {"del_bridges", "reload", "del_vm", "wait_del", "del_pool", "del_user"}
TeardownCalls(ops) == {i \in DOMAIN log : log[i].op \in ops /\ log[i].run = t.runs}
Running(ids) == {id \in ids : id \in DOMAIN vms /\ vms[id].status = "running"}

\* C25 (as claimed): in a teardown with auto_stop no bridge and no VM is
\* deleted while a member VM is running: every running member was sent a stop
\* and seen 'stopped' before; and a teardown that saw a VM not stopped in 30
\* polls deletes nothing and returns False.
C25_StopBeforeDelete ==
    t.auto =>
        /\ Deleting => Running({t.members[i] : i \in DOMAIN t.members}) = {}
        /\ t.polls = StopPolls =>
            /\ ~Deleting
            /\ t.pc \in {"idle", "bulk_next"} /\ t.ret = "false"
            /\ TeardownCalls({"del_bridge", "td_reload", "del_vm"}) = {}
            /\ t.pool \in pools /\ t.user \in pveUsers

\* C25, without a failed call: the same, while no call to the hypervisor has
\* failed.
C25_NoFault == faults = 0 => C25_StopBeforeDelete

\* C25, the give-up: a teardown with auto_stop has read the status of a VM 30
\* times without seeing it stopped.
C25_GaveUp == t.auto /\ t.polls = StopPolls

\* C26: no step taken while a teardown is under way deletes or changes a
\* template (the replicas are templates), changes the template registry or
\* changes the replicas the stand records.
C26_TeardownKeepsReplicas ==
    [][t.pc # "idle" =>
        /\ registry' = registry
        /\ stand' = stand
        /\ \A id \in DOMAIN vms :
            vms[id].template => (id \in DOMAIN vms' /\ vms'[id] = vms[id])]_vars

\* C26, witness: a teardown has deleted a VM of a stand deployed on pve2,
\* where the replicas are, which the registry and the stand record.
C26_Witness ==
    /\ \E i \in Events("del_vm") :
        /\ log[i].arg # 0
        /\ tasks[log[i].arg].state = "OK"
        /\ tasks[log[i].arg].node = "pve2"
    /\ registry = Registered
    /\ \A i \in DOMAIN stand.machines : "pve2" \in DOMAIN stand.machines[i].replicas
    /\ \A v \in DOMAIN registry : registry[v].replicas["pve2"] \in DOMAIN vms

\* C27: sync_templates never ends with an exception; once it has returned,
\* no replica is recorded for a (template, node) pair whose replica could not
\* be made, and every pair of the stand was dealt with: it failed or has a
\* recorded replica.
C27_PairFailureContained ==
    /\ s.pc # "raised"
    /\ SyncReturned =>
        /\ \A p \in s.failed : CheckExistingReplica(stand, p[1], p[2]) = 0
        /\ \A p \in Pairs : p \in s.failed \/ CheckExistingReplica(stand, p[1], p[2]) # 0

\* C27, witness: a run has returned in which a pair failed and the replica of
\* a pair that comes after it was cloned, migrated and recorded.
C27_Witness ==
    /\ SyncReturned
    /\ \E p \in s.failed : \E i \in Events("sync_migrate") :
        /\ log[i].run = s.run
        /\ log[i].arg # 0
        /\ tasks[log[i].arg].state = "OK"
        /\ log[i].slot[1] = p[1]
        /\ NodeIndex(p[2]) < log[i].slot[2]
        /\ CheckExistingReplica(stand, p[1], log[i].node) = log[i].id

\* C28: a teardown without auto_stop in which the operator declined to stop
\* the running VMs has returned False, and has issued no stop, no deletion of
\* a bridge, no reload and no deletion of a VM; it deleted no pool and no
\* user, which both still exist, and the step in which the operator declines
\* changes nothing on the hypervisor and leaves the group index as it is.
C28_DeclinedNoEffect ==
    /\ [](t.confirm = "n" =>
            /\ t.pc = "idle" /\ t.ret = "false"
            /\ TeardownCalls({"stop", "del_bridge", "td_reload", "del_vm"}) = {}
            /\ t.deleted = 0 /\ ~t.pool_deleted /\ ~t.user_deleted
            /\ t.pool \in pools /\ t.user \in pveUsers)
    /\ [][t.confirm # "n" /\ t'.confirm = "n" => UNCHANGED <<hyp, groups, log>>]_vars

\* C28, witness: the operator declined in a teardown that had found a
\* running VM with a NIC on a bridge of the stand.
C28_Witness ==
    /\ t.confirm = "n"
    /\ ~t.auto
    /\ t.running # <<>>
    /\ t.todo # {}
    /\ Running({t.members[i] : i \in DOMAIN t.members}) # {}


\* The users of the call whose account, pool and pool ACL were all created.
Succeeded(op, i) ==
    \E e \in Events(op) : log[e].slot[1] = i /\ log[e].arg = 1
Prepared(i) ==
    Succeeded("create_user", i) /\ Succeeded("create_pool", i) /\ Succeeded("pool_acl", i)
Ended == d.pc \in {"done", "raised"}
ReturnedResults == IF Returned THEN d.results ELSE <<>>
PoolVms(p) == {v \in DOMAIN vms : vms[v].pool = p}

\* C29: when deploy_stand_local has ended, it has returned a result entry for
\* a user if and only if the user's account creation, pool creation and pool
\* ACL grant all succeeded; no failure in the machine loop (VMID, clone, NIC,
\* VM ACL, snapshot) takes the entry away.
C29_ResultIff ==
    Ended =>
        \A i \in DOMAIN d.users :
            (\E k \in DOMAIN ReturnedResults :
                ReturnedResults[k] = [user |-> PoolName(d.users[i]), node |-> d.node])
            <=> Prepared(i)

\* C29: the same for the calls that return.
C29_WhenReturned ==
    Returned =>
        \A i \in DOMAIN d.users :
            (\E k \in DOMAIN d.results :
                d.results[k] = [user |-> PoolName(d.users[i]), node |-> d.node])
            <=> Prepared(i)

\* C29: a call that returned an entry for a user whose pool holds fewer VMs
\* than the stand has machines, a clone having been refused.
C29_FewerVms ==
    /\ Returned /\ t.pc = "idle" /\ t.runs = 0
    /\ \E k \in DOMAIN d.results :
        Cardinality(PoolVms(d.results[k].user)) < Len(stand.machines)
    /\ \E e \in Events("clone") : log[e].arg = 0

\* C29: the call was left by the exception of the waiter of a snapshot, the
\* user prepared.
C29_Raised ==
    /\ d.pc = "raised" /\ d.target = NoNode /\ Prepared(1)
    /\ \E e \in Events("snapshot") : log[e].arg # 0 /\ tasks[log[e].arg].state = "ERR"

\* The user is listed in the group.
Listed(g, u) == g \in DOMAIN groups /\ \E i \in DOMAIN groups[g] : groups[g][i] = u
MenuDone == t.pc = "idle" /\ t.menu # ""

\* C30: when a deletion asked for in the stand-management menu is over, every
\* user whose teardown did not return success is still listed in the group
\* (and so the group still exists).
C30_ListedUnlessTornDown ==
    MenuDone =>
        \A i \in DOMAIN t.musers :
            t.rets[i] # "true" => Listed(t.group, t.musers[i])

\* C30: the per-user deletion has ended; the operator declined to stop the
\* running VM, the user's pool, account and VMs exist and no group lists the
\* user.
C30_Orphaned ==
    /\ MenuDone /\ t.menu = "user" /\ t.confirm = "n"
    /\ t.pool \in pools /\ t.user \in pveUsers
    /\ PoolMembers(vms, t.pool) # {}
    /\ FindUserGroup(groups, t.musers[1]) = {}

\* C30: the deletion of a whole group has ended; a teardown returned False
\* and the group is deleted.
C30_GroupGone ==
    /\ MenuDone /\ t.menu = "all" /\ Len(t.musers) = 2
    /\ t.rets[1] = "true" /\ t.rets[2] = "false"
    /\ t.group \notin DOMAIN groups
    /\ PveUser(t.musers[2]) \in pveUsers

====
